---- MODULE Spec2Model ----
(***************************************************************************)
(* Cinetiser tool: the six cut slots, the per-slot raster cache with its   *)
(* fingerprints, the rotation transition and the frame loop of             *)
(* src/sketch.js, and the CutManager class of src/modules/cut-manager.js.  *)
(*                                                                         *)
(* Numbers: lengths are pixels, times are milliseconds, rotation speeds    *)
(* are in units of 0.0001 radians per frame (40 is the code's 0.004).      *)
(* A progress value is the exact fraction <<numerator, denominator>>.      *)
(***************************************************************************)
EXTENDS Integers, Sequences, FiniteSets, TLC

VARIABLES
  loadedImage,                 \* 0 = null, otherwise the id of the p5.Image
  pWidth, pHeight,             \* p.width, p.height
  params,                      \* the sketch's params (= the GUI's parameters object)
  slotParams,                  \* the parameter provider's per-slot snapshots
  cutSlots, selectedCutSlot, cuts, activeCutIndex,
  rotationTransitionStart, rotationTransitionDuration,
  patternImg, lastPattern, lastRing, lastDisplay,
  cutCaches, cutCacheParams, previousActiveCutSlot,
  display,                     \* what the display layer holds
  now,                         \* p.millis()
  resetPending,                \* handleReset's setTimeout callback is queued
  imageLoads,                  \* the images requested with p.loadImage, and those still loading
  inputs,                      \* how many events of the user have been handled
  cutManager,                  \* an instance of the CutManager class
  renderEngine,                \* an instance of the RenderEngine class and its layers
  step                         \* what the last operation was and what it did

vars == <<loadedImage, pWidth, pHeight, params, slotParams, cutSlots,
          selectedCutSlot, cuts, activeCutIndex, rotationTransitionStart,
          rotationTransitionDuration, patternImg, lastPattern, lastRing,
          lastDisplay, cutCaches, cutCacheParams, previousActiveCutSlot,
          display, now, resetPending, imageLoads,
          inputs, cutManager, renderEngine, step>>

sketchVars == <<loadedImage, pWidth, pHeight, params, slotParams, cutSlots,
                selectedCutSlot, cuts, activeCutIndex, rotationTransitionStart,
                rotationTransitionDuration, patternImg, lastPattern, lastRing,
                lastDisplay, cutCaches, cutCacheParams, previousActiveCutSlot,
                display, now, resetPending, imageLoads,
                inputs>>

----------------------------------------------------------------------------
(* Values *)

Null == [null |-> TRUE]       \* JavaScript null, for object-valued fields
NoTime == -1                  \* null, for rotationTransitionStart
NoSlot == -1                  \* null, for previousActiveCutSlot
NoIndex == -1                 \* null, for activeCutIndex
NoImage == 0                  \* null, for loadedImage

NumSlots == 6
Slots == 0 .. (NumSlots - 1)

Max(a, b) == IF a >= b THEN a ELSE b
Min(a, b) == IF a <= b THEN a ELSE b

One == <<1, 1>>               \* the progress 1.0
FracEq(p, q) == p[1] * q[2] = q[1] * p[2]
FracLess(p, q) == p[1] * q[2] < q[1] * p[2]

----------------------------------------------------------------------------
(* Bounds and inputs of the model *)

MaxImages == 1                \* images the user can load: ids 1..MaxImages
MaxInputs == 5                \* the user acts at most this many times in one run
MaxTicks == 2                 \* the clock advances at most this many times
TickMs == 700                 \* by this many milliseconds each time

Images == 1 .. MaxImages
ImageWidth(img) == IF img = 1 THEN 800 ELSE 1600
ImageHeight(img) == 1000

SlotArgs == {-1, 0, 1, 6}     \* slot indices the GUI passes to selectCutSlot
MouseXs == {-10, 200}
MouseYs == {250}
WheelDeltas == {-100, 100}    \* event.deltaY of a wheel notch, down and up

CanvasWidths == {400, 800}
CanvasHeights == {500}
PosXs == {0, 100}
PosYs == {0}
Zooms == {1, 2}
CutSizes == {300, 310}
SliceAmounts == {10}
RotationAmounts == {10}
RotationSpeeds == {40, 200}
RotationMethods == {"incremental", "wave"}

ParamValues(paramName) ==
  CASE paramName = "canvasWidth" -> CanvasWidths
    [] paramName = "canvasHeight" -> CanvasHeights
    [] paramName = "imagePosX" -> PosXs
    [] paramName = "imagePosY" -> PosYs
    [] paramName = "imageZoom" -> Zooms
    [] paramName = "cutSize" -> CutSizes
    [] paramName = "sliceAmount" -> SliceAmounts
    [] paramName = "rotationAmount" -> RotationAmounts
    [] paramName = "rotationSpeed" -> RotationSpeeds
    [] paramName = "rotationMethod" -> RotationMethods
    [] paramName = "animated" -> BOOLEAN

RingParamNames == {"cutSize", "sliceAmount", "rotationAmount", "rotationSpeed",
                   "rotationMethod", "animated"}
ParamNames == {"canvasWidth", "canvasHeight", "imagePosX", "imagePosY",
               "imageZoom"} \cup RingParamNames

----------------------------------------------------------------------------
(* The default parameters. The configuration names no rotationSpeed and no    *)
(* animated flag; they are held here at the values p.draw falls back to for   *)
(* an absent field (speed = 0.004, animated = true).                          *)

getDefaultParameters ==
  [canvasWidth |-> 400, canvasHeight |-> 500, imagePosX |-> 0, imagePosY |-> 0,
   imageZoom |-> 1, cutSize |-> 300, sliceAmount |-> 10, rotationAmount |-> 10,
   rotationMethod |-> "incremental", rotationSpeed |-> 40, animated |-> TRUE]

RingSnapshot(P) ==
  [cutSize |-> P.cutSize, sliceAmount |-> P.sliceAmount,
   rotationAmount |-> P.rotationAmount, rotationSpeed |-> P.rotationSpeed,
   animated |-> P.animated, rotationMethod |-> P.rotationMethod]

(* The provider's answer for one slot: that slot's ring parameters and the   *)
(* image transform shared by all slots.                                      *)
getParametersForSlot(slotIndex) ==
  [cutSize |-> slotParams[slotIndex].cutSize,
   sliceAmount |-> slotParams[slotIndex].sliceAmount,
   rotationAmount |-> slotParams[slotIndex].rotationAmount,
   rotationSpeed |-> slotParams[slotIndex].rotationSpeed,
   animated |-> slotParams[slotIndex].animated,
   rotationMethod |-> slotParams[slotIndex].rotationMethod,
   imageZoom |-> params.imageZoom]

----------------------------------------------------------------------------
(* Geometry: src/unnamed/part_000 (modules/image-processor.js of the sketch) *)

calculateCoverDimensions(imgWidth, imgHeight, canvasWidth, canvasHeight) ==
  IF imgWidth * canvasHeight > canvasWidth * imgHeight
    THEN [width |-> (canvasHeight * imgWidth) \div imgHeight, height |-> canvasHeight]
    ELSE [width |-> canvasWidth, height |-> (canvasWidth * imgHeight) \div imgWidth]

(* Bounds that let the image move by the whole excess in each direction *)
calculatePositionBounds_WholeExcess(imgWidth, imgHeight, canvasWidth, canvasHeight, zoom) ==
  LET dims == calculateCoverDimensions(imgWidth, imgHeight, canvasWidth, canvasHeight)
      excessWidth == dims.width * zoom - canvasWidth
      excessHeight == dims.height * zoom - canvasHeight
  IN [minX |-> -excessWidth, maxX |-> excessWidth,
      minY |-> -excessHeight, maxY |-> excessHeight]

calculatePositionBounds(imgWidth, imgHeight, canvasWidth, canvasHeight, zoom) ==
  LET dims == calculateCoverDimensions(imgWidth, imgHeight, canvasWidth, canvasHeight)
      excessWidth == dims.width * zoom - canvasWidth
      excessHeight == dims.height * zoom - canvasHeight
  IN [minX |-> -(excessWidth \div 2), maxX |-> excessWidth \div 2,
      minY |-> -(excessHeight \div 2), maxY |-> excessHeight \div 2]

(* The image rectangle on a canvas for an image, a pan and a zoom *)
FrameFor(imgWidth, imgHeight, canvasWidth, canvasHeight, imagePosX, imagePosY, imageZoom) ==
  LET posBounds == calculatePositionBounds(imgWidth, imgHeight,
                                           canvasWidth, canvasHeight, imageZoom)
      posX == Max(posBounds.minX, Min(posBounds.maxX, imagePosX))
      posY == Max(posBounds.minY, Min(posBounds.maxY, imagePosY))
      coverDims == calculateCoverDimensions(imgWidth, imgHeight, canvasWidth, canvasHeight)
      zoomedImageWidth == coverDims.width * imageZoom
      zoomedImageHeight == coverDims.height * imageZoom
      imageCenterX == canvasWidth \div 2 + posX
      imageCenterY == canvasHeight \div 2 + posY
  IN [posX |-> posX, posY |-> posY,
      zoomedImageWidth |-> zoomedImageWidth, zoomedImageHeight |-> zoomedImageHeight,
      imageCenterX |-> imageCenterX, imageCenterY |-> imageCenterY,
      imageLeft |-> imageCenterX - zoomedImageWidth \div 2,
      imageRight |-> imageCenterX + zoomedImageWidth \div 2,
      imageTop |-> imageCenterY - zoomedImageHeight \div 2,
      imageBottom |-> imageCenterY + zoomedImageHeight \div 2]

(* The image rectangle on the canvas for the current image, canvas, pan and zoom *)
(* (p.draw and p.mousePressed compute it the same way).                          *)
ImageFrame ==
  FrameFor(ImageWidth(loadedImage), ImageHeight(loadedImage), pWidth, pHeight,
           params.imagePosX, params.imagePosY, params.imageZoom)

(* Numbers that need not be whole are fractions <<numerator, denominator>>   *)
(* with a positive denominator.                                              *)
FractionLess(a, b) == a[1] * b[2] < b[1] * a[2]
MaxFraction(a, b) == IF FractionLess(a, b) THEN b ELSE a
Floor(frac) == frac[1] \div frac[2]
Whole(n) == <<n, 1>>

(* value || fallback, for a number: 0 is falsy *)
OrDefault(value, fallback) == IF value[1] = 0 THEN fallback ELSE value

(* Math.max(1, cutParams.cutSize || 300) *)
requestedCutSize(cutSizeValue) == MaxFraction(Whole(1), OrDefault(cutSizeValue, Whole(300)))

(* Math.max(1, Math.floor(cutParams.sliceAmount || 10)) *)
cutSliceAmountOf(sliceAmountValue) == Max(1, Floor(OrDefault(sliceAmountValue, Whole(10))))

(* A diameter that is not limited by the image *)
clampToImageBounds_Unlimited(cutSize, F) == cutSize

(* if (cutSize > maxAllowedDiameter) cutSize = maxAllowedDiameter *)
clampToImageBounds(cutSize, F) ==
  LET maxAllowedDiameter == Whole(Min(F.zoomedImageWidth, F.zoomedImageHeight))
  IN IF FractionLess(maxAllowedDiameter, cutSize) THEN maxAllowedDiameter ELSE cutSize

(* A render loop that draws the cut where it was stored, without the clamp   *)
(* of its centre                                                             *)
CutGeometryFor_CentreUnclamped(cut, cutSizeValue, sliceAmountValue, imageZoom, F) ==
  LET clamped == clampToImageBounds(requestedCutSize(cutSizeValue), F)
      cutSize == Floor(clamped)
  IN [cutSize |-> cutSize,
      cutSliceAmount |-> cutSliceAmountOf(sliceAmountValue),
      maxDiameter |-> cutSize,
      clampedCenterX |-> F.imageCenterX + cut.centerX * imageZoom,
      clampedCenterY |-> F.imageCenterY + cut.centerY * imageZoom]

(* One cut of the render loop: its clamped diameter, ring count and centre,  *)
(* for a snapshot whose cutSize and sliceAmount are any numbers. A diameter  *)
(* that is whole is kept as an integer.                                      *)
CutGeometryFor(cut, cutSizeValue, sliceAmountValue, imageZoom, F) ==
  LET clamped == clampToImageBounds(requestedCutSize(cutSizeValue), F)
      cutSize == Floor(clamped)
      maxRadius == cutSize \div 2
      canvasSpaceX == F.imageCenterX + cut.centerX * imageZoom
      canvasSpaceY == F.imageCenterY + cut.centerY * imageZoom
  IN [cutSize |-> cutSize,
      cutSliceAmount |-> cutSliceAmountOf(sliceAmountValue),
      maxDiameter |-> cutSize,
      clampedCenterX |-> Max(F.imageLeft + maxRadius, Min(F.imageRight - maxRadius, canvasSpaceX)),
      clampedCenterY |-> Max(F.imageTop + maxRadius, Min(F.imageBottom - maxRadius, canvasSpaceY))]

(* The same for a snapshot of whole numbers *)
CutGeometry(cut, cutParams, F) ==
  CutGeometryFor(cut, Whole(cutParams.cutSize), Whole(cutParams.sliceAmount),
                 cutParams.imageZoom, F)

----------------------------------------------------------------------------
(* Transition controller: p.draw, src/sketch.js lines 783-806 *)

frameRate == 60

(* A duration without the floor of 500 ms *)
TransitionDuration_Unfloored(P) ==
  LET rotationSpeed == IF P.rotationSpeed = 0 THEN 40 ELSE P.rotationSpeed
  IN 3141600 \div (frameRate * Max(rotationSpeed, 1))

(* max(500, 0.05 * cycleDuration), cycleDuration = 2*PI / max(speed, 0.0001) / *)
(* frameRate * 1000; with the speed in units of 0.0001 and PI = 3.1416 this is *)
(* max(500, 3141600 / (frameRate * speed)).                                    *)
TransitionDuration(P) ==
  LET rotationSpeed == IF P.rotationSpeed = 0 THEN 40 ELSE P.rotationSpeed
  IN Max(500, 3141600 \div (frameRate * Max(rotationSpeed, 1)))

(* min(elapsed / duration, 1.0); 1.0 when no transition is in flight *)
(* A progress that is not capped at 1.0 *)
RotationProgress_Uncapped(start, duration) ==
  IF start = NoTime THEN One ELSE <<now - start, duration>>

RotationProgress(start, duration) ==
  IF start = NoTime THEN One
  ELSE IF now - start >= duration THEN One
  ELSE <<now - start, duration>>

----------------------------------------------------------------------------
(* Ring compositor: renderCutSlices and renderCutSlicesToBuffer of           *)
(* src/sketch.js. A rendered layer is described by everything its pixels     *)
(* depend on (the frame counter of an animated cut excepted).                *)

(* The full rotation amount, whatever the progress *)
LerpedRotationAmount_Full(rotationAmount, rotationProgress) == <<rotationAmount, 1>>

LerpedRotationAmount(rotationAmount, rotationProgress) ==
  <<rotationAmount * rotationProgress[1], rotationProgress[2]>>

renderCutSlices(pattern, centerX, centerY, maxDiameter, sliceAmount, cutSize, rotationAmount, rotationSpeed, isAnimated, rotationProgress, cutParams) ==
  [pattern |-> pattern, centerX |-> centerX, centerY |-> centerY,
   maxDiameter |-> maxDiameter, sliceAmount |-> sliceAmount, cutSize |-> cutSize,
   rings |-> IF rotationAmount = 0 THEN 0 ELSE Max(0, sliceAmount),
   lerpedRotationAmount |-> LerpedRotationAmount(rotationAmount, rotationProgress),
   rotationSpeed |-> rotationSpeed, animated |-> isAnimated,
   rotationMethod |-> cutParams.rotationMethod]

(* The slot's graphics buffer is created at the canvas size when the slot has *)
(* none, and reused (cleared and redrawn) otherwise.                          *)
renderCutSlicesToBuffer(cutCachesArray, slotIndex, pattern, centerX, centerY, maxDiameter, sliceAmount, cutSize, rotationAmount, rotationSpeed, isAnimated, rotationProgress, cutParams) ==
  [cutCachesArray EXCEPT ![slotIndex] =
     [size |-> IF cutCachesArray[slotIndex] = Null
                 THEN <<pWidth, pHeight>> ELSE cutCachesArray[slotIndex].size,
      layer |-> renderCutSlices(pattern, centerX, centerY, maxDiameter, sliceAmount,
                                cutSize, rotationAmount, rotationSpeed, isAnimated,
                                rotationProgress, cutParams)]]

----------------------------------------------------------------------------
(* Cache fingerprint and staleness test: p.draw lines 876-892, the same test *)
(* as CacheManager.createCacheKey / needsCacheUpdate of modules/utils.js.    *)

createCacheKey(centerX, centerY, maxDiameter, sliceAmount, cutSize, rotationAmount, rotationSpeed, animated, rotationMethod) ==
  [centerX |-> centerX, centerY |-> centerY, maxDiameter |-> maxDiameter,
   cutSliceAmount |-> sliceAmount, cutSize |-> cutSize,
   rotationAmount |-> rotationAmount, rotationSpeed |-> rotationSpeed,
   animated |-> animated, rotationMethod |-> rotationMethod]

(* JSON.stringify of a fingerprint: the text of its nine properties in the   *)
(* order of the object literal. A number is its decimal digits, a boolean is *)
(* true or false, a string is quoted.                                        *)
DigitChar(d) == <<"0", "1", "2", "3", "4", "5", "6", "7", "8", "9">>[d + 1]

RECURSIVE Digits(_)
Digits(n) == IF n < 10 THEN <<DigitChar(n)>>
                       ELSE Digits(n \div 10) \o <<DigitChar(n % 10)>>

NumberText(n) == IF n < 0 THEN <<"-">> \o Digits(-n) ELSE Digits(n)

BooleanText(b) == IF b THEN <<"true">> ELSE <<"false">>

StringText(str) == <<"\"", str, "\"">>

Property(name, valueText) == <<"\"", name, "\"", ":">> \o valueText

JSON_stringify(key) ==
  <<"{">> \o Property("centerX", NumberText(key.centerX))
    \o <<",">> \o Property("centerY", NumberText(key.centerY))
    \o <<",">> \o Property("maxDiameter", NumberText(key.maxDiameter))
    \o <<",">> \o Property("cutSliceAmount", NumberText(key.cutSliceAmount))
    \o <<",">> \o Property("cutSize", NumberText(key.cutSize))
    \o <<",">> \o Property("rotationAmount", NumberText(key.rotationAmount))
    \o <<",">> \o Property("rotationSpeed", NumberText(key.rotationSpeed))
    \o <<",">> \o Property("animated", BooleanText(key.animated))
    \o <<",">> \o Property("rotationMethod", StringText(key.rotationMethod))
    \o <<"}">>

(* A cache that is never trusted: every inactive slot is rendered again *)
needsCacheUpdate_Always(caches, cacheParams, slotIndex, cacheKey) == TRUE

(* A comparison that reads the text up to the rotation method *)
needsCacheUpdate_MethodUnread(caches, cacheParams, slotIndex, cacheKey) ==
  \/ caches[slotIndex] = Null
  \/ cacheParams[slotIndex] = Null
  \/ JSON_stringify([cacheParams[slotIndex] EXCEPT !.rotationMethod = ""]) #
       JSON_stringify([cacheKey EXCEPT !.rotationMethod = ""])

needsCacheUpdate(caches, cacheParams, slotIndex, cacheKey) ==
  \/ caches[slotIndex] = Null
  \/ cacheParams[slotIndex] = Null
  \/ JSON_stringify(cacheParams[slotIndex]) # JSON_stringify(cacheKey)

SlotCacheKey(cut, F) ==
  LET cutParams == getParametersForSlot(cut.slotIndex)
      G == CutGeometry(cut, cutParams, F)
  IN createCacheKey(G.clampedCenterX, G.clampedCenterY, G.maxDiameter, G.cutSliceAmount,
                    G.cutSize, cutParams.rotationAmount, cutParams.rotationSpeed,
                    cutParams.animated, cutParams.rotationMethod)

----------------------------------------------------------------------------
(* The render loop of p.draw, src/sketch.js lines 815-918. st carries the    *)
(* caches, their fingerprints and the display layer through the loop, and    *)
(* records which slots were composited, tested and blitted, and which were   *)
(* rendered again over a raster whose stored fingerprint no longer matched.  *)

(* A render loop that takes the cut of slot 0 for the active one *)
isActiveCut_SlotZero(cut) == cut.slotIndex = 0

(* A render loop that takes no cut for the active one *)
isActiveCut_Never(cut) == FALSE

(* The cut of the slot that is selected is the active cut *)
isActiveCut(cut) == cut.slotIndex = selectedCutSlot

RECURSIVE RenderAllCuts(_, _, _, _, _)
RenderAllCuts(cutIdx, st, F, pattern, rotationProgress) ==
  IF cutIdx > Len(cuts) THEN st
  ELSE
    LET cut == cuts[cutIdx]
        slotIndex == cut.slotIndex
        cutParams == getParametersForSlot(slotIndex)
        G == CutGeometry(cut, cutParams, F)
    IN
      IF isActiveCut(cut) THEN
        RenderAllCuts(cutIdx + 1,
          [st EXCEPT
             !.display = Append(@, [slotIndex |-> slotIndex, source |-> "direct",
                 layer |-> renderCutSlices(pattern, G.clampedCenterX, G.clampedCenterY,
                             G.maxDiameter, G.cutSliceAmount, G.cutSize,
                             cutParams.rotationAmount, cutParams.rotationSpeed,
                             cutParams.animated, rotationProgress, cutParams)]),
             !.direct = @ \cup {slotIndex}],
          F, pattern, rotationProgress)
      ELSE
        LET cacheKey == SlotCacheKey(cut, F)
            stale == needsCacheUpdate(st.caches, st.cacheParams, slotIndex, cacheKey)
            caches1 == IF stale
                         THEN renderCutSlicesToBuffer(st.caches, slotIndex, pattern,
                                G.clampedCenterX, G.clampedCenterY, G.maxDiameter,
                                G.cutSliceAmount, G.cutSize, cutParams.rotationAmount,
                                cutParams.rotationSpeed, cutParams.animated, One, cutParams)
                         ELSE st.caches
        IN RenderAllCuts(cutIdx + 1,
             [caches |-> caches1,
              cacheParams |-> IF stale THEN [st.cacheParams EXCEPT ![slotIndex] = cacheKey]
                                       ELSE st.cacheParams,
              display |-> IF caches1[slotIndex] # Null
                            THEN Append(st.display, [slotIndex |-> slotIndex,
                                   source |-> "cache", layer |-> caches1[slotIndex].layer,
                                   size |-> caches1[slotIndex].size])
                            ELSE st.display,
              direct |-> st.direct,
              tested |-> st.tested \cup {slotIndex},
              rendered |-> IF stale THEN st.rendered \cup {slotIndex} ELSE st.rendered,
              refreshed |-> IF /\ stale
                               /\ st.caches[slotIndex] # Null
                               /\ st.cacheParams[slotIndex] # Null
                             THEN st.refreshed \cup {slotIndex} ELSE st.refreshed,
              blitted |-> IF caches1[slotIndex] # Null THEN st.blitted \cup {slotIndex}
                                                        ELSE st.blitted],
             F, pattern, rotationProgress)

----------------------------------------------------------------------------
(* Initial state: the declarations of sketch(p), src/sketch.js lines 421-474, *)
(* p.setup, and the constructors of CutManager and RenderEngine.              *)

NoCuts == [s \in Slots |-> Null]

Init ==
  /\ loadedImage = NoImage
  /\ params = getDefaultParameters
  /\ pWidth = getDefaultParameters.canvasWidth
  /\ pHeight = getDefaultParameters.canvasHeight
  /\ slotParams = [s \in Slots |-> RingSnapshot(getDefaultParameters)]
  /\ cutSlots = NoCuts
  /\ selectedCutSlot = 0
  /\ cuts = <<>>
  /\ activeCutIndex = NoIndex
  /\ rotationTransitionStart = NoTime
  /\ rotationTransitionDuration = 1000
  /\ patternImg = Null
  /\ lastPattern = Null
  /\ lastRing = Null
  /\ lastDisplay = Null
  /\ cutCaches = NoCuts
  /\ cutCacheParams = NoCuts
  /\ previousActiveCutSlot = NoSlot
  /\ display = <<>>
  /\ now = 0
  /\ resetPending = FALSE
  /\ imageLoads = [requested |-> <<>>, loading |-> {}]
  /\ inputs = 0
  /\ cutManager = [cutSlots |-> NoCuts, selectedCutSlot |-> 0, cuts |-> <<>>,
                   activeCutIndex |-> NoIndex, nextCutId |-> 0]
  /\ renderEngine = [buffer |-> Null, cutCachesArray |-> NoCuts, liveCacheLayers |-> 0]
  /\ step = [op |-> "init"]

----------------------------------------------------------------------------
(* Cut slots of the sketch: src/sketch.js lines 1477-1541 *)

(* A cuts array that is not rebuilt *)
updateCutsArray_Empty(slots) == <<>>

RECURSIVE CutsFrom(_, _)
CutsFrom(slots, slotIndex) ==
  IF slotIndex >= NumSlots THEN <<>>
  ELSE (IF slots[slotIndex] # Null
          THEN <<[centerX |-> slots[slotIndex].centerX,
                  centerY |-> slots[slotIndex].centerY, slotIndex |-> slotIndex]>>
          ELSE <<>>) \o CutsFrom(slots, slotIndex + 1)

(* A cuts array that is appended to without being emptied first *)
updateCutsArray_Appending(slots) == CutsFrom(slots, 0) \o CutsFrom(slots, 0)

updateCutsArray(slots) == CutsFrom(slots, 0)

(* placeCutInSlot of the sketch, as p.mousePressed calls it *)
placeCutInSlot(slotIndex, centerX, centerY) ==
  IF slotIndex < 0 \/ slotIndex >= 6
    THEN UNCHANGED <<cutSlots, selectedCutSlot, cuts>>
    ELSE /\ cutSlots' = [cutSlots EXCEPT ![slotIndex] = [centerX |-> centerX, centerY |-> centerY]]
         /\ selectedCutSlot' = slotIndex
         /\ cuts' = updateCutsArray(cutSlots')

(* A selection that always counts as a change *)
wasChanged_Always(slotIndex, selected) == TRUE

(* The selection changes: the slot is not the one that is selected *)
wasChanged(slotIndex, selected) == slotIndex # selected

(* The GUI selects a slot *)
selectCutSlot(slotIndex) ==
  /\ IF slotIndex >= 0 /\ slotIndex < 6
       THEN /\ IF wasChanged(slotIndex, selectedCutSlot)
                 THEN /\ rotationTransitionStart' = now
                      /\ cutCaches' = [cutCaches EXCEPT ![slotIndex] = Null]
                      /\ cutCacheParams' = [cutCacheParams EXCEPT ![slotIndex] = Null]
                 ELSE UNCHANGED <<rotationTransitionStart, cutCaches, cutCacheParams>>
            /\ selectedCutSlot' = slotIndex
            /\ lastRing' = Null
            /\ lastDisplay' = Null
            /\ lastPattern' = Null
            /\ patternImg' = Null
       ELSE UNCHANGED <<rotationTransitionStart, cutCaches, cutCacheParams, selectedCutSlot,
                        lastRing, lastDisplay, lastPattern, patternImg>>
  /\ UNCHANGED <<loadedImage, pWidth, pHeight, params, slotParams, cutSlots, cuts,
                 activeCutIndex, rotationTransitionDuration, previousActiveCutSlot,
                 display, now, resetPending, imageLoads, cutManager, renderEngine>>
  /\ step' = [op |-> "selectCutSlot", slotIndex |-> slotIndex]

(* A placement that leaves the transition as it was *)
startTransitionOnPlacement_Skipped == UNCHANGED rotationTransitionStart

(* p.mousePressed starts the rotation transition after it has placed the cut *)
startTransitionOnPlacement == rotationTransitionStart' = now

(* The click, clamped so that the cut stays inside the image, in image space *)
imageSpaceClick(mouseX, mouseY) ==
  LET F == ImageFrame
      cutSizeRadius == getParametersForSlot(selectedCutSlot).cutSize \div 2
      clampedClickX == Max(F.imageLeft + cutSizeRadius,
                           Min(F.imageRight - cutSizeRadius, mouseX))
      clampedClickY == Max(F.imageTop + cutSizeRadius,
                           Min(F.imageBottom - cutSizeRadius, mouseY))
  IN [imageSpaceX |-> (clampedClickX - F.imageCenterX) \div params.imageZoom,
      imageSpaceY |-> (clampedClickY - F.imageCenterY) \div params.imageZoom]

(* p.mousePressed on the canvas (a click on a GUI element returns early) *)
mousePressed(mouseX, mouseY) ==
  /\ IF /\ loadedImage # NoImage
        /\ mouseX >= 0 /\ mouseX <= pWidth /\ mouseY >= 0 /\ mouseY <= pHeight
       THEN
         /\ placeCutInSlot(selectedCutSlot, imageSpaceClick(mouseX, mouseY).imageSpaceX,
                           imageSpaceClick(mouseX, mouseY).imageSpaceY)
         /\ startTransitionOnPlacement
         /\ step' = [op |-> "mousePressed", placed |-> TRUE,
                     previous |-> cutSlots[selectedCutSlot],
                     centerX |-> imageSpaceClick(mouseX, mouseY).imageSpaceX,
                     centerY |-> imageSpaceClick(mouseX, mouseY).imageSpaceY]
       ELSE
         /\ UNCHANGED <<cutSlots, selectedCutSlot, cuts, rotationTransitionStart>>
         /\ step' = [op |-> "mousePressed", placed |-> FALSE]
  /\ UNCHANGED <<loadedImage, pWidth, pHeight, params, slotParams, activeCutIndex,
                 rotationTransitionDuration, patternImg, lastPattern, lastRing, lastDisplay,
                 cutCaches, cutCacheParams, previousActiveCutSlot, display, now,
                 resetPending, imageLoads, cutManager, renderEngine>>

----------------------------------------------------------------------------
(* p.draw: src/sketch.js lines 509-1012 *)

(* A transition that is never ended *)
transitionEnds_Never(rotationProgress) == FALSE

(* The progress at which the frame ends the transition *)
transitionEnds(rotationProgress) == ~FracLess(rotationProgress, One)

RingOf(P) == [cutSize |-> P.cutSize, sliceAmount |-> P.sliceAmount,
              rotationAmount |-> P.rotationAmount, rotationMethod |-> P.rotationMethod]

DisplayOf(P) == [imagePosX |-> P.imagePosX, imagePosY |-> P.imagePosY,
                 imageZoom |-> P.imageZoom]

(* The condition of the frame that skips the heavy rendering *)
SkipRendering ==
  /\ ~params.animated
  /\ Len(cuts) > 0
  /\ rotationTransitionStart = NoTime
  /\ lastRing = RingOf(params)
  /\ lastDisplay = DisplayOf(params)

(* What imgLayer.get() returns after drawImageCover into imgLayer *)
PatternOf(F) == [img |-> loadedImage, width |-> pWidth, height |-> pHeight,
                 posX |-> F.posX, posY |-> F.posY, zoom |-> params.imageZoom]

DrawNoImage ==
  /\ loadedImage = NoImage
  /\ step' = [op |-> "draw", path |-> "noimage"]
  /\ UNCHANGED sketchVars
  /\ UNCHANGED <<cutManager, renderEngine>>

DrawSkip ==
  /\ loadedImage # NoImage
  /\ SkipRendering
  /\ step' = [op |-> "draw", path |-> "skip"]
  /\ UNCHANGED sketchVars
  /\ UNCHANGED <<cutManager, renderEngine>>

(* The heavy rendering of a frame, from the state the frame starts in: the   *)
(* pattern, the transition duration and progress, and the render loop        *)
FullRender ==
  LET F == ImageFrame
      needsPatternUpdate ==
        \/ lastPattern = Null
        \/ lastPattern # [posX |-> F.posX, posY |-> F.posY, zoom |-> params.imageZoom]
      pattern == IF needsPatternUpdate THEN PatternOf(F) ELSE patternImg
      hasSlices == Len(cuts) > 0
      duration == IF hasSlices THEN TransitionDuration(params)
                               ELSE rotationTransitionDuration
      rotationProgress == IF hasSlices
                            THEN RotationProgress(rotationTransitionStart, duration)
                            ELSE One
      activeChanged == hasSlices /\ selectedCutSlot # previousActiveCutSlot
      caches0 == IF activeChanged THEN [cutCaches EXCEPT ![selectedCutSlot] = Null]
                                  ELSE cutCaches
      st0 == [caches |-> caches0, cacheParams |-> cutCacheParams, display |-> <<>>,
              direct |-> {}, tested |-> {}, rendered |-> {}, refreshed |-> {},
              blitted |-> {}]
  IN [F |-> F, pattern |-> pattern, hasSlices |-> hasSlices, duration |-> duration,
      rotationProgress |-> rotationProgress, activeChanged |-> activeChanged,
      st |-> IF hasSlices THEN RenderAllCuts(1, st0, F, pattern, rotationProgress)
                          ELSE st0]

(* The writes of a frame that ran the heavy rendering R *)
CommitRender(R) ==
  /\ patternImg' = R.pattern
  /\ lastPattern' = [posX |-> R.F.posX, posY |-> R.F.posY, zoom |-> params.imageZoom]
  /\ rotationTransitionDuration' = R.duration
  /\ rotationTransitionStart' =
       IF R.hasSlices /\ rotationTransitionStart # NoTime
                      /\ transitionEnds(R.rotationProgress)
         THEN NoTime ELSE rotationTransitionStart
  /\ previousActiveCutSlot' = IF R.activeChanged THEN selectedCutSlot
                                                 ELSE previousActiveCutSlot
  /\ cutCaches' = R.st.caches
  /\ cutCacheParams' = R.st.cacheParams
  /\ display' = R.st.display
  /\ lastRing' = RingOf(params)
  /\ lastDisplay' = DisplayOf(params)
  /\ step' = [op |-> "draw", path |-> "full", hasSlices |-> R.hasSlices,
              rotationProgress |-> R.rotationProgress, direct |-> R.st.direct,
              tested |-> R.st.tested, rendered |-> R.st.rendered,
              refreshed |-> R.st.refreshed, blitted |-> R.st.blitted]

DrawFull ==
  /\ loadedImage # NoImage
  /\ ~SkipRendering
  /\ CommitRender(FullRender)
  /\ UNCHANGED <<loadedImage, pWidth, pHeight, params, slotParams, cutSlots,
                 selectedCutSlot, cuts, activeCutIndex, now, resetPending, imageLoads,
                 inputs, cutManager, renderEngine>>

draw == DrawNoImage \/ DrawSkip \/ DrawFull

----------------------------------------------------------------------------
(* Slider bounds, parameter changes, image load and reset of the sketch:     *)
(* src/sketch.js lines 1689-1918, with the notifications of src/gui.js       *)

(* updateCutSizeSliderBounds: the GUI clamps cutSize into [100, maxDiameter] *)
updateCutSizeSliderBounds(P, img) ==
  IF img = NoImage THEN P
  ELSE LET coverDims == calculateCoverDimensions(ImageWidth(img), ImageHeight(img),
                                                 P.canvasWidth, P.canvasHeight)
           maxDiameter == Min(coverDims.width * P.imageZoom, coverDims.height * P.imageZoom)
       IN [P EXCEPT !.cutSize = Max(100, Min(maxDiameter, P.cutSize))]

(* updatePositionSliderBounds: the pan is reset to the centre *)
updatePositionSliderBounds(P, img) ==
  IF img = NoImage THEN P ELSE [P EXCEPT !.imagePosX = 0, !.imagePosY = 0]

(* updateZoomSliderBounds: the zoom is reset to full cover *)
updateZoomSliderBounds(P, img) ==
  IF img = NoImage THEN P ELSE [P EXCEPT !.imageZoom = 1]

(* clearAllCuts, the declaration that is in force (the later one) *)
clearAllCuts ==
  /\ cuts' = <<>>
  /\ activeCutIndex' = NoIndex

(* Every ring parameter restarts the lerp *)
restartsLerp_AnyRingParameter(paramName) == paramName \in RingParamNames

(* The parameter whose change restarts the lerp *)
restartsLerp(paramName) == paramName = "rotationMethod"

(* handleParameterChange(paramName, value, allParameters) *)
handleParameterChange(paramName, allParameters) ==
  IF paramName \in {"canvasWidth", "canvasHeight"} THEN
    (* the handler stops at the assignment to nextCutId, a name that is not declared *)
    /\ params' = allParameters
    /\ pWidth' = allParameters.canvasWidth
    /\ pHeight' = allParameters.canvasHeight
    /\ display' = <<>>
    /\ cuts' = <<>>
    /\ activeCutIndex' = NoIndex
    /\ UNCHANGED <<rotationTransitionStart, cutCaches, cutCacheParams>>
  ELSE IF paramName = "imageZoom" THEN
    /\ params' = updateCutSizeSliderBounds(
                   updatePositionSliderBounds(allParameters, loadedImage), loadedImage)
    /\ cutCaches' = NoCuts
    /\ cutCacheParams' = NoCuts
    /\ UNCHANGED <<pWidth, pHeight, display, cuts, activeCutIndex, rotationTransitionStart>>
  ELSE IF paramName \in RingParamNames THEN
    /\ params' = allParameters
    /\ cutCaches' = [i \in Slots |-> IF i # selectedCutSlot THEN Null ELSE cutCaches[i]]
    /\ cutCacheParams' = [i \in Slots |-> IF i # selectedCutSlot THEN Null
                                                                  ELSE cutCacheParams[i]]
    /\ rotationTransitionStart' = IF restartsLerp(paramName) THEN now
                                                            ELSE rotationTransitionStart
    /\ UNCHANGED <<pWidth, pHeight, display, cuts, activeCutIndex>>
  ELSE
    /\ params' = allParameters
    /\ UNCHANGED <<pWidth, pHeight, display, cuts, activeCutIndex, rotationTransitionStart,
                   cutCaches, cutCacheParams>>

(* A control of the GUI is moved: the GUI stores the value, the provider keeps *)
(* ring parameters for the selected slot, and the sketch is notified.         *)
onParameterChange(paramName, value) ==
  /\ slotParams' = IF paramName \in RingParamNames
                     THEN [slotParams EXCEPT ![selectedCutSlot][paramName] = value]
                     ELSE slotParams
  /\ handleParameterChange(paramName, [params EXCEPT ![paramName] = value])
  /\ UNCHANGED <<loadedImage, cutSlots, selectedCutSlot, rotationTransitionDuration,
                 patternImg, lastPattern, lastRing, lastDisplay, previousActiveCutSlot,
                 now, resetPending, imageLoads, cutManager, renderEngine>>
  /\ step' = [op |-> "onParameterChange", paramName |-> paramName,
              before |-> [cached |-> {s \in Slots : cutCaches[s] # Null}]]

(* p.mouseWheel over the canvas: one notch changes cutSize by 10 through the GUI *)
mouseWheel(deltaY) ==
  LET scrollSensitivity == 10
      delta == IF deltaY > 0 THEN scrollSensitivity ELSE -scrollSensitivity
      newCutSize == Max(100, Min(1920, params.cutSize - delta))
  IN /\ newCutSize \in CutSizes
     /\ onParameterChange("cutSize", newCutSize)

(* A callback that empties the cuts array and leaves the slots as they are *)
handleImageLoaded_KeepsSlots(img) ==
  /\ loadedImage' = img
  /\ patternImg' = Null
  /\ lastPattern' = Null
  /\ cutCaches' = NoCuts
  /\ cutCacheParams' = NoCuts
  /\ previousActiveCutSlot' = NoSlot
  /\ display' = <<>>
  /\ lastRing' = Null
  /\ lastDisplay' = Null
  /\ cutSlots' = cutSlots
  /\ cuts' = <<>>
  /\ selectedCutSlot' = 0
  /\ activeCutIndex' = NoIndex
  /\ rotationTransitionStart' = NoTime
  /\ params' = updateCutSizeSliderBounds(
                 updatePositionSliderBounds(updateZoomSliderBounds(params, img), img), img)
  /\ UNCHANGED <<pWidth, pHeight, slotParams, rotationTransitionDuration, now,
                 resetPending, cutManager, renderEngine>>
  /\ imageLoads' = [imageLoads EXCEPT !.loading = @ \ {img}]
  /\ step' = [op |-> "handleImageLoaded",
              before |-> [occupied |-> {s \in Slots : cutSlots[s] # Null},
                          cached |-> {s \in Slots : cutCaches[s] # Null},
                          selectedCutSlot |-> selectedCutSlot,
                          rotationTransitionStart |-> rotationTransitionStart]]

(* The callback of p.loadImage in handleImageLoaded *)
handleImageLoaded(img) ==
  /\ loadedImage' = img
  /\ patternImg' = Null
  /\ lastPattern' = Null
  /\ cutCaches' = NoCuts
  /\ cutCacheParams' = NoCuts
  /\ previousActiveCutSlot' = NoSlot
  /\ display' = <<>>
  /\ lastRing' = Null
  /\ lastDisplay' = Null
  /\ cutSlots' = NoCuts
  /\ cuts' = <<>>
  /\ selectedCutSlot' = 0
  /\ activeCutIndex' = NoIndex
  /\ rotationTransitionStart' = NoTime
  /\ params' = updateCutSizeSliderBounds(
                 updatePositionSliderBounds(updateZoomSliderBounds(params, img), img), img)
  /\ UNCHANGED <<pWidth, pHeight, slotParams, rotationTransitionDuration, now,
                 resetPending, cutManager, renderEngine>>
  /\ imageLoads' = [imageLoads EXCEPT !.loading = @ \ {img}]
  /\ step' = [op |-> "handleImageLoaded",
              before |-> [occupied |-> {s \in Slots : cutSlots[s] # Null},
                          cached |-> {s \in Slots : cutCaches[s] # Null},
                          selectedCutSlot |-> selectedCutSlot,
                          rotationTransitionStart |-> rotationTransitionStart]]

(* handleReset, up to the deferred GUI updates *)
handleReset ==
  /\ clearAllCuts
  /\ params' = [params EXCEPT !.imagePosX = 0, !.imagePosY = 0, !.imageZoom = 1]
  /\ lastRing' = Null
  /\ lastDisplay' = Null
  /\ lastPattern' = Null
  /\ patternImg' = Null
  /\ display' = <<>>
  /\ rotationTransitionStart' = NoTime
  /\ resetPending' = TRUE
  /\ UNCHANGED <<loadedImage, pWidth, pHeight, slotParams, cutSlots, selectedCutSlot,
                 rotationTransitionDuration, cutCaches, cutCacheParams,
                 previousActiveCutSlot, now, imageLoads, cutManager, renderEngine>>
  /\ step' = [op |-> "handleReset"]

(* The deferred GUI updates of handleReset: imagePosX, imagePosY, imageZoom *)
resetTimeout ==
  /\ resetPending
  /\ resetPending' = FALSE
  /\ params' = updateCutSizeSliderBounds(
                 updatePositionSliderBounds(
                   [params EXCEPT !.imagePosX = 0, !.imagePosY = 0, !.imageZoom = 1],
                   loadedImage), loadedImage)
  /\ cutCaches' = NoCuts
  /\ cutCacheParams' = NoCuts
  /\ UNCHANGED <<loadedImage, pWidth, pHeight, slotParams, cutSlots, selectedCutSlot, cuts,
                 activeCutIndex, rotationTransitionStart, rotationTransitionDuration,
                 patternImg, lastPattern, lastRing, lastDisplay, previousActiveCutSlot,
                 display, now, imageLoads, inputs, cutManager, renderEngine>>
  /\ step' = [op |-> "resetTimeout"]

(* p.millis() advances between two events *)
Tick ==
  /\ now < MaxTicks * TickMs
  /\ now' = now + TickMs
  /\ UNCHANGED <<loadedImage, pWidth, pHeight, params, slotParams, cutSlots,
                 selectedCutSlot, cuts, activeCutIndex, rotationTransitionStart,
                 rotationTransitionDuration, patternImg, lastPattern, lastRing, lastDisplay,
                 cutCaches, cutCacheParams, previousActiveCutSlot, display, resetPending, imageLoads,
                 inputs, cutManager, renderEngine>>
  /\ step' = [op |-> "Tick"]

(* The events of the user, at most MaxInputs of them in one run *)
UserEvent(A) ==
  /\ ~resetPending
  /\ inputs < MaxInputs
  /\ A
  /\ inputs' = inputs + 1

ParameterInput == \E paramName \in ParamNames : \E value \in ParamValues(paramName) :
                    UserEvent(onParameterChange(paramName, value))

ImageLoaded == \E img \in Images : UserEvent(handleImageLoaded(img))

SelectSlot == \E slotIndex \in SlotArgs : UserEvent(selectCutSlot(slotIndex))

MouseClick == \E mouseX \in MouseXs : \E mouseY \in MouseYs :
                UserEvent(mousePressed(mouseX, mouseY))

ResetImage == UserEvent(handleReset)

MouseWheel == \E deltaY \in WheelDeltas : UserEvent(mouseWheel(deltaY))

Next ==
  \/ draw
  \/ ParameterInput
  \/ ImageLoaded
  \/ SelectSlot
  \/ MouseClick
  \/ MouseWheel
  \/ ResetImage
  \/ resetTimeout
  \/ Tick

Spec == Init /\ [][Next]_vars

----------------------------------------------------------------------------
(* The CutManager class: src/modules/cut-manager.js lines 6-66.  An instance *)
(* owns cutSlots, selectedCutSlot and cuts; the raster caches belong to the  *)
(* sketch.  SpecCM runs an instance beside a sketch that loads images,       *)
(* places and selects cuts and draws frames with its parameters left at     *)
(* their defaults, so that the operations of the class are observed while    *)
(* the caches are filled.                                                    *)

CenterXs == {-50, 0}
CenterYs == {0}

(* A guard that is off by one at the upper end *)
CutManager_slotInRange_UpTo6(slotIndex) == slotIndex >= 0 /\ slotIndex <= 6

(* The guard of the three slot operations of the class *)
CutManager_slotInRange(slotIndex) == slotIndex >= 0 /\ slotIndex < 6

CutManager_placeCutInSlot(slotIndex, centerX, centerY) ==
  /\ IF ~CutManager_slotInRange(slotIndex)
       THEN /\ cutManager' = cutManager
            /\ step' = [op |-> "CutManager.placeCutInSlot", slotIndex |-> slotIndex,
                        centerX |-> centerX, centerY |-> centerY, result |-> FALSE]
       ELSE LET slots == [cutManager.cutSlots EXCEPT
                            ![slotIndex] = [centerX |-> centerX, centerY |-> centerY]]
            IN /\ cutManager' = [cutManager EXCEPT !.cutSlots = slots,
                                                   !.selectedCutSlot = slotIndex,
                                                   !.cuts = updateCutsArray(slots)]
               /\ step' = [op |-> "CutManager.placeCutInSlot", slotIndex |-> slotIndex,
                           previous |-> IF slotIndex \in DOMAIN cutManager.cutSlots
                                          THEN cutManager.cutSlots[slotIndex] ELSE Null,
                           centerX |-> centerX, centerY |-> centerY, result |-> TRUE]
  /\ UNCHANGED <<sketchVars, renderEngine>>

CutManager_selectCutSlot(slotIndex) ==
  /\ IF CutManager_slotInRange(slotIndex)
       THEN /\ cutManager' = [cutManager EXCEPT !.selectedCutSlot = slotIndex]
            /\ step' = [op |-> "CutManager.selectCutSlot", slotIndex |-> slotIndex,
                        result |-> wasChanged(slotIndex, cutManager.selectedCutSlot)]
       ELSE /\ cutManager' = cutManager
            /\ step' = [op |-> "CutManager.selectCutSlot", slotIndex |-> slotIndex,
                        result |-> FALSE]
  /\ UNCHANGED <<sketchVars, renderEngine>>

(* A clearing that also moves the selection back to slot 0 *)
CutManager_clearCutSlot_Deselecting(slotIndex) ==
  /\ IF CutManager_slotInRange(slotIndex)
       THEN LET slots == [cutManager.cutSlots EXCEPT ![slotIndex] = Null]
            IN /\ cutManager' = [cutManager EXCEPT !.cutSlots = slots,
                                                   !.selectedCutSlot = 0,
                                                   !.cuts = updateCutsArray(slots)]
               /\ step' = [op |-> "CutManager.clearCutSlot", slotIndex |-> slotIndex,
                           previous |-> cutManager.cutSlots[slotIndex], result |-> TRUE]
       ELSE /\ cutManager' = cutManager
            /\ step' = [op |-> "CutManager.clearCutSlot", slotIndex |-> slotIndex,
                        result |-> FALSE]
  /\ UNCHANGED <<sketchVars, renderEngine>>

CutManager_clearCutSlot(slotIndex) ==
  /\ IF CutManager_slotInRange(slotIndex)
       THEN LET slots == [cutManager.cutSlots EXCEPT ![slotIndex] = Null]
            IN /\ cutManager' = [cutManager EXCEPT !.cutSlots = slots,
                                                   !.cuts = updateCutsArray(slots)]
               /\ step' = [op |-> "CutManager.clearCutSlot", slotIndex |-> slotIndex,
                           previous |-> cutManager.cutSlots[slotIndex], result |-> TRUE]
       ELSE /\ cutManager' = cutManager
            /\ step' = [op |-> "CutManager.clearCutSlot", slotIndex |-> slotIndex,
                        result |-> FALSE]
  /\ UNCHANGED <<sketchVars, renderEngine>>

CutManager_clearAllCuts ==
  /\ cutManager' = [cutManager EXCEPT !.cutSlots = NoCuts, !.cuts = <<>>,
                                      !.selectedCutSlot = 0, !.activeCutIndex = NoIndex]
  /\ step' = [op |-> "CutManager.clearAllCuts"]
  /\ UNCHANGED <<sketchVars, renderEngine>>

(* Indices pushed from the last slot down to the first *)
CutManager_getCutIndices_Descending(cm) ==
  LET RECURSIVE Down(_)
      Down(slotIndex) ==
        IF slotIndex < 0 THEN <<>>
        ELSE (IF cm.cutSlots[slotIndex] # Null THEN <<slotIndex>> ELSE <<>>)
             \o Down(slotIndex - 1)
  IN Down(NumSlots - 1)

(* usedIndices after cutSlots.forEach has pushed the index of every slot that *)
(* is not null                                                                *)
CutManager_getCutIndices(cm) ==
  LET RECURSIVE From(_)
      From(slotIndex) ==
        IF slotIndex >= NumSlots THEN <<>>
        ELSE (IF cm.cutSlots[slotIndex] # Null THEN <<slotIndex>> ELSE <<>>)
             \o From(slotIndex + 1)
  IN From(0)

PlaceCut == \E slotIndex \in SlotArgs : \E centerX \in CenterXs : \E centerY \in CenterYs :
              CutManager_placeCutInSlot(slotIndex, centerX, centerY)

SelectCut == \E slotIndex \in SlotArgs : CutManager_selectCutSlot(slotIndex)

ClearCut == \E slotIndex \in SlotArgs : CutManager_clearCutSlot(slotIndex)

NextCM ==
  \/ PlaceCut
  \/ SelectCut
  \/ ClearCut
  \/ CutManager_clearAllCuts
  \/ ImageLoaded
  \/ MouseClick
  \/ SelectSlot
  \/ DrawFull

SpecCM == Init /\ [][NextCM]_vars

----------------------------------------------------------------------------
(* The legacy list operations of the class: src/modules/cut-manager.js lines *)
(* 68-107.  addCut and removeActiveCut work on cuts and activeCutIndex and   *)
(* leave cutSlots alone.  SpecLegacy runs an instance with the slot          *)
(* operations and the list operations mixed.                                 *)

MaxCutIds == 7                \* addCut hands out the ids 0 .. MaxCutIds - 1

(* A list that takes a seventh cut *)
CutManager_listFull_Above6(cutsArray) == Len(cutsArray) > 6

(* if (this.cuts.length >= 6) *)
CutManager_listFull(cutsArray) == Len(cutsArray) >= 6

CutManager_addCut(centerX, centerY) ==
  /\ IF CutManager_listFull(cutManager.cuts)
       THEN /\ cutManager' = cutManager
            /\ step' = [op |-> "CutManager.addCut", before |-> Len(cutManager.cuts),
                        returned |-> NoIndex]
       ELSE /\ cutManager.nextCutId < MaxCutIds
            /\ cutManager' = [cutManager EXCEPT
                                !.cuts = Append(@, [id |-> cutManager.nextCutId,
                                                    centerX |-> centerX, centerY |-> centerY]),
                                !.activeCutIndex = Len(cutManager.cuts),
                                !.nextCutId = @ + 1]
            /\ step' = [op |-> "CutManager.addCut", before |-> Len(cutManager.cuts),
                        returned |-> Len(cutManager.cuts)]
  /\ UNCHANGED <<sketchVars, renderEngine>>

(* cuts.splice(index, 1) *)
Splice1(seq, index) ==
  IF index < 0 \/ index >= Len(seq) THEN seq
  ELSE [i \in 1 .. Len(seq) - 1 |-> IF i <= index THEN seq[i] ELSE seq[i + 1]]

(* removedCut is undefined when activeCutIndex is past the end of a list     *)
(* that updateCutsArray has rebuilt; reading removedCut.id for the log then  *)
(* throws, after the assignments.                                            *)
CutManager_removeActiveCut ==
  /\ IF cutManager.activeCutIndex = NoIndex \/ Len(cutManager.cuts) = 0
       THEN /\ cutManager' = cutManager
            /\ step' = [op |-> "CutManager.removeActiveCut", threw |-> FALSE,
                        result |-> FALSE]
       ELSE LET spliced == Splice1(cutManager.cuts, cutManager.activeCutIndex)
            IN /\ cutManager' = [cutManager EXCEPT
                                   !.cuts = spliced,
                                   !.activeCutIndex =
                                      IF Len(spliced) = 0 THEN NoIndex
                                      ELSE IF @ >= Len(spliced) THEN Len(spliced) - 1
                                      ELSE @]
               /\ step' = [op |-> "CutManager.removeActiveCut",
                           threw |-> cutManager.activeCutIndex >= Len(cutManager.cuts),
                           result |-> TRUE]
  /\ UNCHANGED <<sketchVars, renderEngine>>

CutManager_selectCut(index) ==
  /\ IF index >= 0 /\ index < Len(cutManager.cuts)
       THEN /\ cutManager' = [cutManager EXCEPT !.activeCutIndex = index]
            /\ step' = [op |-> "CutManager.selectCut", index |-> index, result |-> TRUE]
       ELSE /\ cutManager' = cutManager
            /\ step' = [op |-> "CutManager.selectCut", index |-> index, result |-> FALSE]
  /\ UNCHANGED <<sketchVars, renderEngine>>

LegacyCenterXs == {0}

AddCut == \E centerX \in LegacyCenterXs : \E centerY \in CenterYs :
            CutManager_addCut(centerX, centerY)

SelectListCut == \E index \in SlotArgs : CutManager_selectCut(index)

PlaceLegacy == \E slotIndex \in SlotArgs : \E centerX \in LegacyCenterXs :
                 \E centerY \in CenterYs :
                   CutManager_placeCutInSlot(slotIndex, centerX, centerY)

NextLegacy ==
  \/ PlaceLegacy
  \/ ClearCut
  \/ CutManager_clearAllCuts
  \/ AddCut
  \/ CutManager_removeActiveCut
  \/ SelectListCut

SpecLegacy == Init /\ [][NextLegacy]_vars

----------------------------------------------------------------------------
(* The RenderEngine class: src/modules/render-engine.js.  A layer is the     *)
(* sequence of the rings drawn into it since it was cleared.  An angle is    *)
(* kept exact: a rotation is piUnits * PI radians, times the sine that the   *)
(* wave method and the animation put in front of it when sine.applied holds. *)
(* SpecRE applies the two render methods of an instance to a cleared display *)
(* layer (the rings drawn into it are step.display) and to an array of cache *)
(* layers, which is kept with the instance between the calls.                *)

Ceil(frac) == IF frac[1] >= 0 THEN (frac[1] + frac[2] - 1) \div frac[2]
                              ELSE -((-frac[1]) \div frac[2])

(* p.radians(degrees), in units of PI *)
radians(degrees) == <<degrees[1], degrees[2] * 180>>

NoSine == [applied |-> FALSE, angle |-> 0, phase |-> <<0, 1>>]

(* An angle that leaves the ring index out *)
RenderEngine_calculateRotation_IndexDropped(sliceIndex, totalSlices, lerpedRotationAmount, rotationSpeed, isAnimated, rotationMethod, frameCount) ==
  [piUnits |-> radians(lerpedRotationAmount), sine |-> NoSine]

(* A static angle that swings with the frame counter *)
RenderEngine_calculateRotation_FrameDriven(sliceIndex, totalSlices, lerpedRotationAmount, rotationSpeed, isAnimated, rotationMethod, frameCount) ==
  [piUnits |-> radians(<<lerpedRotationAmount[1] * sliceIndex, lerpedRotationAmount[2]>>),
   sine |-> [applied |-> TRUE, angle |-> frameCount * rotationSpeed, phase |-> <<0, 1>>]]

(* sine.angle is frameCount * rotationSpeed, sine.phase the phase offset in  *)
(* turns (waveFrequency * sliceIndex / totalSlices)                          *)
RenderEngine_calculateRotation(sliceIndex, totalSlices, lerpedRotationAmount, rotationSpeed, isAnimated, rotationMethod, frameCount) ==
  LET waveFrequency == 3
      phaseOffset == <<sliceIndex * waveFrequency, totalSlices>>
  IN IF isAnimated
       THEN IF rotationMethod = "wave"
              THEN [piUnits |-> radians(lerpedRotationAmount),
                    sine |-> [applied |-> TRUE, angle |-> frameCount * rotationSpeed,
                              phase |-> phaseOffset]]
              ELSE [piUnits |-> radians(<<lerpedRotationAmount[1] * sliceIndex,
                                          lerpedRotationAmount[2]>>),
                    sine |-> [applied |-> TRUE, angle |-> frameCount * rotationSpeed,
                              phase |-> <<0, 1>>]]
       ELSE IF rotationMethod = "wave"
              THEN [piUnits |-> radians(lerpedRotationAmount),
                    sine |-> [applied |-> TRUE, angle |-> 0, phase |-> phaseOffset]]
              ELSE [piUnits |-> radians(<<lerpedRotationAmount[1] * sliceIndex,
                                          lerpedRotationAmount[2]>>),
                    sine |-> NoSine]

(* A ring loop that measures each ring at its inner edge *)
RenderEngine_ring_InnerEdge(i, patternImg_, imgLayer, centerX, centerY, maxDiameter, sliceAmount, cutSize, rotationAmount, rotationSpeed, isAnimated, rotationProgress, cutParams, frameCount) ==
  LET currentSize == <<maxDiameter * sliceAmount - (i + 1) * cutSize, sliceAmount>>
      lerpedRotationAmount == <<rotationAmount * rotationProgress[1], rotationProgress[2]>>
      sw == Max(1, Ceil(currentSize))
      sh == Max(1, Ceil(currentSize))
      bufferScale == 2
      localCenterX2 == 2 * centerX - (pWidth - imgLayer.width)
      localCenterY2 == 2 * centerY - (pHeight - imgLayer.height)
  IN [i |-> i, currentSize |-> currentSize, sw |-> sw, sh |-> sh,
      bufferW |-> sw * bufferScale, bufferH |-> sh * bufferScale,
      sx |-> <<Max(0, Min(2 * (patternImg_.width - sw), localCenterX2 - sw)), 2>>,
      sy |-> <<Max(0, Min(2 * (patternImg_.height - sh), localCenterY2 - sh)), 2>>,
      centerX |-> centerX, centerY |-> centerY,
      currentRotation |-> RenderEngine_calculateRotation(i, sliceAmount,
                            lerpedRotationAmount, rotationSpeed, isAnimated,
                            cutParams.rotationMethod, frameCount)]

(* One pass of the ring loop: the slice that is cut out of the pattern image *)
(* and the rotation it is drawn with                                         *)
RenderEngine_ring(i, patternImg_, imgLayer, centerX, centerY, maxDiameter, sliceAmount, cutSize, rotationAmount, rotationSpeed, isAnimated, rotationProgress, cutParams, frameCount) ==
  LET currentSize == <<maxDiameter * sliceAmount - i * cutSize, sliceAmount>>
      lerpedRotationAmount == <<rotationAmount * rotationProgress[1], rotationProgress[2]>>
      sw == Max(1, Ceil(currentSize))
      sh == Max(1, Ceil(currentSize))
      bufferScale == 2
      localCenterX2 == 2 * centerX - (pWidth - imgLayer.width)
      localCenterY2 == 2 * centerY - (pHeight - imgLayer.height)
  IN [i |-> i, currentSize |-> currentSize, sw |-> sw, sh |-> sh,
      bufferW |-> sw * bufferScale, bufferH |-> sh * bufferScale,
      sx |-> <<Max(0, Min(2 * (patternImg_.width - sw), localCenterX2 - sw)), 2>>,
      sy |-> <<Max(0, Min(2 * (patternImg_.height - sh), localCenterY2 - sh)), 2>>,
      centerX |-> centerX, centerY |-> centerY,
      currentRotation |-> RenderEngine_calculateRotation(i, sliceAmount,
                            lerpedRotationAmount, rotationSpeed, isAnimated,
                            cutParams.rotationMethod, frameCount)]

(* for (let i = 0; i < sliceAmount; i++): the rings drawn from ring i on *)
RECURSIVE RenderEngine_rings(_, _, _, _, _, _, _, _, _, _, _, _, _, _)
RenderEngine_rings(i, patternImg_, imgLayer, centerX, centerY, maxDiameter, sliceAmount, cutSize, rotationAmount, rotationSpeed, isAnimated, rotationProgress, cutParams, frameCount) ==
  IF i >= sliceAmount THEN <<>>
  ELSE <<RenderEngine_ring(i, patternImg_, imgLayer, centerX, centerY, maxDiameter,
                           sliceAmount, cutSize, rotationAmount, rotationSpeed, isAnimated,
                           rotationProgress, cutParams, frameCount)>>
       \o RenderEngine_rings(i + 1, patternImg_, imgLayer, centerX, centerY, maxDiameter,
                             sliceAmount, cutSize, rotationAmount, rotationSpeed, isAnimated,
                             rotationProgress, cutParams, frameCount)

(* A compositor without the early return for a rotation amount of 0 *)
RenderEngine_composite_NoShortCircuit(patternImg_, imgLayer, centerX, centerY, maxDiameter, sliceAmount, cutSize, rotationAmount, rotationSpeed, isAnimated, rotationProgress, cutParams, frameCount) ==
  RenderEngine_rings(0, patternImg_, imgLayer, centerX, centerY, maxDiameter, sliceAmount,
                     cutSize, rotationAmount, rotationSpeed, isAnimated, rotationProgress,
                     cutParams, frameCount)

(* if (rotationAmount === 0) return; and the ring loop, which the two render *)
(* methods have in common                                                    *)
RenderEngine_composite(patternImg_, imgLayer, centerX, centerY, maxDiameter, sliceAmount, cutSize, rotationAmount, rotationSpeed, isAnimated, rotationProgress, cutParams, frameCount) ==
  IF rotationAmount = 0 THEN <<>>
  ELSE RenderEngine_rings(0, patternImg_, imgLayer, centerX, centerY, maxDiameter,
                          sliceAmount, cutSize, rotationAmount, rotationSpeed, isAnimated,
                          rotationProgress, cutParams, frameCount)

(* this.buffer after the rings: it is created again whenever its size changes *)
RenderEngine_bufferAfter(buffer, rings) ==
  IF Len(rings) = 0 THEN buffer
  ELSE [width |-> rings[Len(rings)].bufferW, height |-> rings[Len(rings)].bufferH]

(* The inputs of the two render methods in SpecRE *)
RingCallInputs ==
  [patternImg : {[width |-> 400, height |-> 500]},
   imgLayer : {[width |-> 400, height |-> 500]},
   centerX : {200}, centerY : {250}, maxDiameter : {300}, cutSize : {300},
   sliceAmount : {1, 10}, rotationAmount : {-10, 0, 10}, rotationSpeed : {40},
   isAnimated : BOOLEAN, rotationProgress : {<<1, 2>>, <<1, 1>>},
   rotationMethod : RotationMethods, frameCount : {1}]

CompositeOf(in) ==
  RenderEngine_composite(in.patternImg, in.imgLayer, in.centerX, in.centerY,
                         in.maxDiameter, in.sliceAmount, in.cutSize, in.rotationAmount,
                         in.rotationSpeed, in.isAnimated, in.rotationProgress,
                         [rotationMethod |-> in.rotationMethod], in.frameCount)

RenderOps == {"RenderEngine.renderCutSlices", "RenderEngine.renderCutSlicesToBuffer"}

(* Whether the render call before this one had the same arguments at another *)
(* p.frameCount                                                              *)
PreviousCall(in) ==
  [sameAtAnotherFrame |-> /\ step.op \in RenderOps
                          /\ step.in.frameCount # in.frameCount
                          /\ [step.in EXCEPT !.frameCount = in.frameCount] = in]

(* renderCutSlices(display, ...) on a display layer that has just been cleared *)
RenderEngine_renderCutSlices(in) ==
  LET rings == CompositeOf(in)
  IN /\ renderEngine' = [renderEngine EXCEPT
                           !.buffer = RenderEngine_bufferAfter(@, rings)]
     /\ step' = [op |-> "RenderEngine.renderCutSlices", in |-> in, display |-> rings,
                 previous |-> PreviousCall(in)]
     /\ UNCHANGED <<sketchVars, cutManager>>

(* renderCutSlicesToBuffer(cutCachesArray, slotIndex, ...): the layer of the *)
(* slot is created when there is none, cleared, and drawn into.              *)
(* liveCacheLayers counts the layers that createGraphics has made for the    *)
(* slots and on which remove() has not been called.                          *)
RenderEngine_renderCutSlicesToBuffer(slotIndex, in) ==
  LET rings == CompositeOf(in)
      cutCache == renderEngine.cutCachesArray[slotIndex]
  IN /\ renderEngine' = [renderEngine EXCEPT
                           !.cutCachesArray[slotIndex] =
                             [size |-> IF cutCache = Null THEN <<pWidth, pHeight>>
                                                          ELSE cutCache.size,
                              layer |-> rings],
                           !.liveCacheLayers = IF cutCache = Null THEN @ + 1 ELSE @,
                           !.buffer = RenderEngine_bufferAfter(@, rings)]
     /\ step' = [op |-> "RenderEngine.renderCutSlicesToBuffer", slotIndex |-> slotIndex,
                 in |-> in, previous |-> PreviousCall(in),
                 before |-> [drawn |-> cutCache # Null /\ cutCache.layer # <<>>]]
     /\ UNCHANGED <<sketchVars, cutManager>>

RenderActive == \E in \in RingCallInputs : RenderEngine_renderCutSlices(in)

(* The slots whose cache layer SpecRE renders *)
RenderedSlots == {0}

RenderToBuffer == \E slotIndex \in RenderedSlots : \E in \in RingCallInputs :
                    RenderEngine_renderCutSlicesToBuffer(slotIndex, in)

NextRE == RenderActive \/ RenderToBuffer

SpecRE == Init /\ [][NextRE]_vars

(* SpecFrames makes the same calls for one cut of ten rings at the frame     *)
(* counts 1 and 2.                                                           *)
FrameCallInputs ==
  [patternImg : {[width |-> 400, height |-> 500]},
   imgLayer : {[width |-> 400, height |-> 500]},
   centerX : {200}, centerY : {250}, maxDiameter : {300}, cutSize : {300},
   sliceAmount : {10}, rotationAmount : {10}, rotationSpeed : {40},
   isAnimated : BOOLEAN, rotationProgress : {<<1, 2>>, <<1, 1>>},
   rotationMethod : RotationMethods, frameCount : {1, 2}]

RenderActiveAtFrame == \E in \in FrameCallInputs : RenderEngine_renderCutSlices(in)

RenderToBufferAtFrame == \E slotIndex \in RenderedSlots : \E in \in FrameCallInputs :
                           RenderEngine_renderCutSlicesToBuffer(slotIndex, in)

NextFrames == RenderActiveAtFrame \/ RenderToBufferAtFrame

SpecFrames == Init /\ [][NextFrames]_vars

----------------------------------------------------------------------------
(* One pass of p.draw's render loop (src/sketch.js lines 816-872) for the    *)
(* active cut, with a snapshot whose cutSize and sliceAmount are any numbers *)
(* and an image that covers any canvas. SpecCut applies it to a cut placed   *)
(* at the centre of the image.                                               *)

CutSizeValues == {<<-5, 1>>, <<-1, 2>>, <<0, 1>>, <<1, 2>>, <<1, 1>>, <<300, 1>>, <<500, 1>>}
SliceAmountValues == {<<-3, 1>>, <<-1, 2>>, <<0, 1>>, <<1, 2>>, <<1, 1>>, <<3, 2>>, <<10, 1>>}

(* undefined: what a provider without a snapshot for the slot returns *)
Undefined == [undefined |-> TRUE]

CutCallInputs ==
  [canvas : {<<400, 500>>, <<300, 300>>}, img : Images, provided : BOOLEAN,
   cutSize : CutSizeValues, sliceAmount : SliceAmountValues, rotationAmount : {0, 10}]

(* gui.getParametersForSlot(slotIndex) for the pass *)
SnapshotFor(in) ==
  IF in.provided
    THEN [cutSize |-> in.cutSize, sliceAmount |-> in.sliceAmount,
          rotationAmount |-> in.rotationAmount,
          rotationSpeed |-> getDefaultParameters.rotationSpeed,
          animated |-> getDefaultParameters.animated,
          rotationMethod |-> getDefaultParameters.rotationMethod,
          imageZoom |-> getDefaultParameters.imageZoom]
    ELSE Undefined

(* Reading cutParams.cutSize of undefined throws a TypeError, which nothing  *)
(* in p.draw catches: the pass and the frame end there.                      *)
DrawOneCut(in) ==
  LET F == FrameFor(ImageWidth(in.img), ImageHeight(in.img), in.canvas[1], in.canvas[2],
                    getDefaultParameters.imagePosX, getDefaultParameters.imagePosY,
                    getDefaultParameters.imageZoom)
      cut == [centerX |-> 0, centerY |-> 0, slotIndex |-> 0]
      cutParams == SnapshotFor(in)
      G == CutGeometryFor(cut, cutParams.cutSize, cutParams.sliceAmount,
                          cutParams.imageZoom, F)
  IN /\ IF cutParams = Undefined
          THEN step' = [op |-> "drawOneCut", in |-> in, F |-> F, threw |-> TRUE]
          ELSE step' = [op |-> "drawOneCut", in |-> in, F |-> F, threw |-> FALSE, G |-> G,
                        layer |-> renderCutSlices(in.img, G.clampedCenterX,
                                    G.clampedCenterY, G.maxDiameter, G.cutSliceAmount,
                                    G.cutSize, cutParams.rotationAmount,
                                    cutParams.rotationSpeed, cutParams.animated, One,
                                    cutParams)]
     /\ UNCHANGED <<sketchVars, cutManager, renderEngine>>

(* The transition duration p.draw computes before the loop (lines 783-793),  *)
(* for a rotationSpeed of any sign, in units of 0.0001                       *)
SpeedValues == {-40, 0, 1, 40, 200}

DrawTransitionDuration(rotationSpeed) ==
  /\ step' = [op |-> "transitionDuration", rotationSpeed |-> rotationSpeed,
              rotationTransitionDuration |->
                TransitionDuration([getDefaultParameters EXCEPT
                                      !.rotationSpeed = rotationSpeed])]
  /\ UNCHANGED <<sketchVars, cutManager, renderEngine>>

NextCut ==
  \/ \E in \in CutCallInputs : DrawOneCut(in)
  \/ \E rotationSpeed \in SpeedValues : DrawTransitionDuration(rotationSpeed)

SpecCut == Init /\ [][NextCut]_vars

----------------------------------------------------------------------------
(* The CacheManager class: src/modules/utils.js lines 212-328, as functions  *)
(* of the instance's fields.                                                 *)

(* The cache fields of the sketch, read as the fields of an instance *)
SketchCaches == [cutCaches |-> cutCaches, cutCacheParams |-> cutCacheParams,
                 previousActiveCutSlot |-> previousActiveCutSlot]

CacheManager_invalidateSlot(cm, slotIndex) ==
  IF slotIndex >= 0 /\ slotIndex < 6
    THEN [cm EXCEPT !.cutCaches[slotIndex] = Null, !.cutCacheParams[slotIndex] = Null]
    ELSE cm

CacheManager_invalidateAll(cm) ==
  [cm EXCEPT !.cutCaches = NoCuts, !.cutCacheParams = NoCuts]

(* A loop that spares no slot *)
CacheManager_invalidateAllExcept_None(cm, activeSlotIndex) == CacheManager_invalidateAll(cm)

(* for (let i = 0; i < 6; i++) if (i !== activeSlotIndex) this.invalidateSlot(i) *)
RECURSIVE CacheManager_invalidateFrom(_, _, _)
CacheManager_invalidateFrom(cm, i, activeSlotIndex) ==
  IF i >= 6 THEN cm
  ELSE CacheManager_invalidateFrom(
         IF i # activeSlotIndex THEN CacheManager_invalidateSlot(cm, i) ELSE cm,
         i + 1, activeSlotIndex)

CacheManager_invalidateAllExcept(cm, activeSlotIndex) ==
  CacheManager_invalidateFrom(cm, 0, activeSlotIndex)

CacheManager_reset(cm) ==
  [CacheManager_invalidateAll(cm) EXCEPT !.previousActiveCutSlot = NoSlot]

(* SpecRaster: a CacheManager whose cutCaches array is the one handed to the *)
(* RenderEngine. Slots are rendered into their layers and invalidated in any *)
(* order. An invalidation assigns null to the entries; no statement calls    *)
(* remove() on a slot's layer.                                               *)
MaxRasters == 8

RasterSlots == {0, 1}

RasterCallInputs ==
  [patternImg : {[width |-> 400, height |-> 500]},
   imgLayer : {[width |-> 400, height |-> 500]},
   centerX : {200}, centerY : {250}, maxDiameter : {300}, cutSize : {300},
   sliceAmount : {10}, rotationAmount : {10}, rotationSpeed : {40},
   isAnimated : BOOLEAN, rotationProgress : {<<1, 1>>},
   rotationMethod : {"incremental"}, frameCount : {1}]

(* The instance's fields, its cutCaches being the RenderEngine's array *)
EngineCaches == [cutCaches |-> renderEngine.cutCachesArray,
                 cutCacheParams |-> cutCacheParams,
                 previousActiveCutSlot |-> previousActiveCutSlot]

InvalidateTo(op, slotIndex, cm) ==
  /\ renderEngine' = [renderEngine EXCEPT !.cutCachesArray = cm.cutCaches]
  /\ step' = [op |-> op, slotIndex |-> slotIndex,
              before |-> [layers |-> Cardinality({s \in Slots :
                                       renderEngine.cutCachesArray[s] # Null})]]
  /\ UNCHANGED <<sketchVars, cutManager>>

RasterRender ==
  \E slotIndex \in RasterSlots : \E in \in RasterCallInputs :
    /\ renderEngine.cutCachesArray[slotIndex] = Null
         => renderEngine.liveCacheLayers < MaxRasters
    /\ RenderEngine_renderCutSlicesToBuffer(slotIndex, in)

RasterInvalidateSlot ==
  \E slotIndex \in RasterSlots :
    InvalidateTo("CacheManager.invalidateSlot", slotIndex,
                 CacheManager_invalidateSlot(EngineCaches, slotIndex))

RasterInvalidateAll ==
  InvalidateTo("CacheManager.invalidateAll", NoSlot, CacheManager_invalidateAll(EngineCaches))

RasterInvalidateAllExcept ==
  \E activeSlotIndex \in RasterSlots :
    InvalidateTo("CacheManager.invalidateAllExcept", activeSlotIndex,
                 CacheManager_invalidateAllExcept(EngineCaches, activeSlotIndex))

NextRaster ==
  \/ RasterRender
  \/ RasterInvalidateSlot
  \/ RasterInvalidateAll
  \/ RasterInvalidateAllExcept

SpecRaster == Init /\ [][NextRaster]_vars

(* SpecProgress: the sketch with a clock that advances in steps shorter than *)
(* a transition. An image is loaded, cuts are placed, rotationSpeed is       *)
(* changed through handleParameterChange and frames are drawn.               *)
MaxFineTicks == 4
FineTickMs == 100

FineTick ==
  /\ now < MaxFineTicks * FineTickMs
  /\ now' = now + FineTickMs
  /\ UNCHANGED <<loadedImage, pWidth, pHeight, params, slotParams, cutSlots,
                 selectedCutSlot, cuts, activeCutIndex, rotationTransitionStart,
                 rotationTransitionDuration, patternImg, lastPattern, lastRing, lastDisplay,
                 cutCaches, cutCacheParams, previousActiveCutSlot, display, resetPending, imageLoads,
                 inputs, cutManager, renderEngine>>
  /\ step' = [op |-> "Tick"]

SpeedInput == \E value \in RotationSpeeds :
                UserEvent(onParameterChange("rotationSpeed", value))

NextProgress ==
  \/ ImageLoaded
  \/ MouseClick
  \/ SpeedInput
  \/ FineTick
  \/ DrawFull

SpecProgress == Init /\ [][NextProgress]_vars

(* SpecLoad: image loads as the two steps they are. handleImageLoaded(url)   *)
(* hands the data to p.loadImage and returns; the callback runs when the     *)
(* image is decoded, and the callbacks of two loads run in either order.     *)
LoadImages == {1, 2}

(* handleImageLoaded(imageDataUrl) up to the return of p.loadImage *)
requestImage(img) ==
  /\ \A k \in 1 .. Len(imageLoads.requested) : imageLoads.requested[k] # img
  /\ imageLoads' = [requested |-> Append(imageLoads.requested, img),
                    loading |-> imageLoads.loading \cup {img}]
  /\ step' = [op |-> "loadImage", img |-> img]
  /\ UNCHANGED <<loadedImage, pWidth, pHeight, params, slotParams, cutSlots,
                 selectedCutSlot, cuts, activeCutIndex, rotationTransitionStart,
                 rotationTransitionDuration, patternImg, lastPattern, lastRing, lastDisplay,
                 cutCaches, cutCacheParams, previousActiveCutSlot, display, now,
                 resetPending, inputs, cutManager, renderEngine>>

RequestImage == \E img \in LoadImages : requestImage(img)

(* The callback of a load that is in flight *)
LoadCompletes == \E img \in imageLoads.loading :
                   handleImageLoaded(img) /\ inputs' = inputs

NextLoad ==
  \/ RequestImage
  \/ LoadCompletes
  \/ MouseClick
  \/ SelectSlot
  \/ DrawFull

SpecLoad == Init /\ [][NextLoad]_vars

(* SpecSample: one pass of the render loop of p.draw for one cut, from the   *)
(* image rectangle through the diameter and centre clamps to the source      *)
(* rectangle of every ring, for images of two shapes, two zooms, two pans    *)
(* and cut positions in and far outside the image. The sizes are whole       *)
(* and even, so that every half is exact.                                    *)
SampleCallInputs ==
  [img : LoadImages, imageZoom : {1, 2}, imagePosX : {-100, 0},
   cutSize : {100, 300, 500}, sliceAmount : {1, 10},
   centerX : {-1000, 0, 1000}, centerY : {-1000, 0}]

(* imgLayer is created at the canvas size and patternImg is imgLayer.get() *)
CanvasLayer == [width |-> pWidth, height |-> pHeight]

DrawCutRings(in) ==
  LET F == FrameFor(ImageWidth(in.img), ImageHeight(in.img), pWidth, pHeight,
                    in.imagePosX, getDefaultParameters.imagePosY, in.imageZoom)
      cut == [centerX |-> in.centerX, centerY |-> in.centerY, slotIndex |-> 0]
      cutParams == [getDefaultParameters EXCEPT !.cutSize = in.cutSize,
                                                !.sliceAmount = in.sliceAmount,
                                                !.imageZoom = in.imageZoom]
      G == CutGeometry(cut, cutParams, F)
  IN /\ step' = [op |-> "drawCutRings", in |-> in, F |-> F, G |-> G,
                 rings |-> RenderEngine_composite(CanvasLayer, CanvasLayer,
                             G.clampedCenterX, G.clampedCenterY, G.maxDiameter,
                             G.cutSliceAmount, G.cutSize, cutParams.rotationAmount,
                             cutParams.rotationSpeed, FALSE, One, cutParams, 1)]
     /\ UNCHANGED <<sketchVars, cutManager, renderEngine>>

NextSample == \E in \in SampleCallInputs : DrawCutRings(in)

SpecSample == Init /\ [][NextSample]_vars

(* SpecPan: calculateCoverDimensions, calculatePositionBounds and the pan    *)
(* clamp of p.draw as functions of an image size, a canvas size, a zoom and  *)
(* a requested pan. The sizes are chosen so that every quotient and every    *)
(* half is whole.                                                            *)
PanCallInputs ==
  [imgWidth : {800, 1000, 1600}, imgHeight : {1000},
   canvas : {<<400, 500>>, <<400, 400>>, <<200, 200>>},
   zoom : {1, 2, 3}, imagePosX : {-2000, -100, 0, 2000}, imagePosY : {-2000, 0, 2000}]

ClampPan(in) ==
  /\ step' = [op |-> "clampPan", in |-> in,
              dims |-> calculateCoverDimensions(in.imgWidth, in.imgHeight,
                                                in.canvas[1], in.canvas[2]),
              posBounds |-> calculatePositionBounds(in.imgWidth, in.imgHeight,
                                                    in.canvas[1], in.canvas[2], in.zoom),
              F |-> FrameFor(in.imgWidth, in.imgHeight, in.canvas[1], in.canvas[2],
                             in.imagePosX, in.imagePosY, in.zoom)]
  /\ UNCHANGED <<sketchVars, cutManager, renderEngine>>

NextPan == \E in \in PanCallInputs : ClampPan(in)

SpecPan == Init /\ [][NextPan]_vars

----------------------------------------------------------------------------
(* Properties *)

(* The step just taken is a frame that went through the render pass *)
FullFrame == step.op = "draw" /\ step.path = "full"

(* The cuts of the render loop that are not the selected slot *)
InactiveCuts == {i \in 1 .. Len(cuts) : cuts[i].slotIndex # selectedCutSlot}

(* The fingerprint the frame computes equals the stored one, and a raster exists *)
CacheHit(i) ==
  /\ cutCaches[cuts[i].slotIndex] # Null
  /\ cutCacheParams[cuts[i].slotIndex] # Null
  /\ cutCacheParams[cuts[i].slotIndex] = SlotCacheKey(cuts[i], ImageFrame)

(* C1: in a render pass, an inactive occupied slot whose raster exists and    *)
(* whose stored fingerprint equals the one computed in this frame is not      *)
(* re-rendered by renderCutSlicesToBuffer, and its raster is blitted as it is *)
C1_CacheHitIsReused ==
  [][FullFrame' /\ loadedImage # NoImage =>
       \A i \in InactiveCuts :
         CacheHit(i) =>
           /\ cuts[i].slotIndex \notin step'.rendered
           /\ cuts[i].slotIndex \in step'.blitted
           /\ cutCaches'[cuts[i].slotIndex] = cutCaches[cuts[i].slotIndex]
           /\ cutCacheParams'[cuts[i].slotIndex] = cutCacheParams[cuts[i].slotIndex]
           /\ \E k \in 1 .. Len(display') :
                /\ display'[k].slotIndex = cuts[i].slotIndex
                /\ display'[k].source = "cache"
                /\ display'[k].layer = cutCaches[cuts[i].slotIndex].layer]_vars

(* A frame blitted a raster that it did not render *)
C1_Witness ==
  /\ FullFrame
  /\ step.blitted \ step.rendered # {}

(* What rendering slot slotIndex into a new raster would give in the state   *)
(* as it is: the current image, canvas, pan, zoom, position and parameters.  *)
FreshRaster(slotIndex) ==
  LET F == ImageFrame
      cut == [centerX |-> cutSlots[slotIndex].centerX,
              centerY |-> cutSlots[slotIndex].centerY, slotIndex |-> slotIndex]
      cutParams == getParametersForSlot(slotIndex)
      G == CutGeometry(cut, cutParams, F)
  IN [size |-> <<pWidth, pHeight>>,
      layer |-> renderCutSlices(PatternOf(F), G.clampedCenterX, G.clampedCenterY,
                  G.maxDiameter, G.cutSliceAmount, G.cutSize, cutParams.rotationAmount,
                  cutParams.rotationSpeed, cutParams.animated, One, cutParams)]

(* C2: every cached raster that a frame blits for an inactive slot was        *)
(* rendered under the source image, canvas size, pan, zoom, slot position and *)
(* slot parameters that are in effect in that frame                           *)
C2_NoStaleRaster ==
  FullFrame =>
    \A k \in 1 .. Len(display) :
      display[k].source = "cache" =>
        /\ display[k].layer = FreshRaster(display[k].slotIndex).layer
        /\ display[k].size = FreshRaster(display[k].slotIndex).size

(* The progress a frame computes from the state it starts in *)
FrameProgress == RotationProgress(rotationTransitionStart, TransitionDuration(params))

(* The slots that hold a cut and are not the selected one *)
OccupiedInactive == {s \in Slots : cutSlots[s] # Null /\ s # selectedCutSlot}

CutsFrame == FullFrame /\ step.hasSlices

(* C4: selecting a slot other than the selected one sets the transition start *)
(* to the current time, whether a transition was in flight or not; a later    *)
(* frame's progress is min(elapsed / duration, 1), and it is 1.0 only when    *)
(* the controller is settled or at least the duration has elapsed             *)
C4_SelectionArmsTransition ==
  [][/\ (step'.op = "selectCutSlot" /\ selectedCutSlot' # selectedCutSlot) =>
          rotationTransitionStart' = now
     /\ (CutsFrame' /\ rotationTransitionStart # NoTime) =>
          LET elapsed == now - rotationTransitionStart
              durationMs == rotationTransitionDuration'
          IN /\ durationMs = TransitionDuration(params)
             /\ elapsed < durationMs =>
                  /\ FracEq(step'.rotationProgress, <<elapsed, durationMs>>)
                  /\ FracLess(step'.rotationProgress, One)
             /\ elapsed >= durationMs => FracEq(step'.rotationProgress, One)]_vars

(* After frames drawn with another slot active, a slot was selected at a     *)
(* time later than 0 and the controller is armed at that time               *)
C4_Witness ==
  /\ step.op = "selectCutSlot"
  /\ previousActiveCutSlot # NoSlot
  /\ previousActiveCutSlot # selectedCutSlot
  /\ rotationTransitionStart = now
  /\ now > 0
  /\ Len(cuts) > 0

(* C5 as stated: once armed, a frame drawn after the duration has elapsed    *)
(* returns the controller to Settled, whatever the frame draws               *)
C5_AnyFrameSettles ==
  [][(/\ step'.op = "draw"
      /\ rotationTransitionStart # NoTime
      /\ now - rotationTransitionStart >=
           Max(rotationTransitionDuration, TransitionDuration(params)))
       => rotationTransitionStart' = NoTime]_vars

(* C5, amended: the controller returns to Settled in the first frame that    *)
(* runs the render pass with an image and at least one cut and in which the  *)
(* elapsed time has reached the duration; until then such a frame leaves the *)
(* start time as it is, and once settled every such frame has progress 1.0   *)
C5_SettlesInRenderPass ==
  [][CutsFrame' =>
       LET elapsed == now - rotationTransitionStart
           durationMs == rotationTransitionDuration'
       IN /\ (rotationTransitionStart # NoTime /\ elapsed >= durationMs) =>
               /\ rotationTransitionStart' = NoTime
               /\ FracEq(step'.rotationProgress, One)
          /\ (rotationTransitionStart # NoTime /\ elapsed < durationMs) =>
               /\ rotationTransitionStart' = rotationTransitionStart
               /\ FracLess(step'.rotationProgress, One)
          /\ rotationTransitionStart = NoTime =>
               /\ rotationTransitionStart' = NoTime
               /\ FracEq(step'.rotationProgress, One)]_vars

(* A transition armed by the placement of the cut has been ended by a frame: *)
(* the frame drew the active cut at progress 1.0 and the controller is       *)
(* settled                                                                   *)
C5_Witness ==
  /\ CutsFrame
  /\ step.direct # {}
  /\ step.rotationProgress = One
  /\ rotationTransitionStart = NoTime
  /\ now > 0

(* C6: every successful placement sets the transition start to the current   *)
(* time, and the frames after it draw the placed cut with rotationAmount     *)
(* times elapsed / duration, which is 0 in a frame drawn at the same instant *)
C6_PlacementArmsTransition ==
  [][/\ (step'.op = "mousePressed" /\ step'.placed) =>
          /\ rotationTransitionStart' = now
          /\ cutSlots'[selectedCutSlot'] # Null
          /\ \E i \in 1 .. Len(cuts') : cuts'[i].slotIndex = selectedCutSlot'
     /\ (CutsFrame' /\ step.op = "mousePressed" /\ step.placed) =>
          \E k \in 1 .. Len(display') :
            /\ display'[k].slotIndex = selectedCutSlot
            /\ display'[k].source = "direct"
            /\ display'[k].layer.lerpedRotationAmount[1] = 0
     /\ (CutsFrame' /\ rotationTransitionStart # NoTime
           /\ now - rotationTransitionStart < rotationTransitionDuration') =>
          \A k \in 1 .. Len(display') :
            display'[k].source = "direct" =>
              FracEq(display'[k].layer.lerpedRotationAmount,
                     <<getParametersForSlot(selectedCutSlot).rotationAmount
                         * (now - rotationTransitionStart),
                       rotationTransitionDuration'>>)]_vars

(* A cut was placed at a time later than 0 beside the cut of another slot,   *)
(* and the transition is armed at that time                                  *)
C6_Witness ==
  /\ step.op = "mousePressed"
  /\ step.placed
  /\ now > 0
  /\ rotationTransitionStart = now
  /\ Len(cuts) > 1

(* C7: a change of rotationMethod sets the transition start to the current   *)
(* time whether or not a transition was in flight; a change of cutSize,      *)
(* sliceAmount, rotationAmount, rotationSpeed or animated leaves it alone    *)
C7_OnlyRotationMethodRearms ==
  [][step'.op = "onParameterChange" =>
       /\ step'.paramName = "rotationMethod" => rotationTransitionStart' = now
       /\ step'.paramName \in {"cutSize", "sliceAmount", "rotationAmount",
                                "rotationSpeed", "animated"} =>
            rotationTransitionStart' = rotationTransitionStart]_vars

(* rotationMethod was changed at a time later than 0 with cuts placed *)
C7_Witness ==
  /\ step.op = "onParameterChange"
  /\ step.paramName = "rotationMethod"
  /\ rotationTransitionStart = now
  /\ now > 0
  /\ Len(cuts) > 0

(* C8: the active cut is rendered with rotationAmount times the transition   *)
(* progress, and every inactive cut that is rendered into its cache is       *)
(* rendered with progress 1.0, also while a transition is in flight          *)
C8_ActiveLerpedInactiveFull ==
  [][CutsFrame' =>
       /\ \A k \in 1 .. Len(display') :
            display'[k].source = "direct" =>
              FracEq(display'[k].layer.lerpedRotationAmount,
                     <<getParametersForSlot(display'[k].slotIndex).rotationAmount
                         * step'.rotationProgress[1],
                       step'.rotationProgress[2]>>)
       /\ \A s \in step'.rendered :
            FracEq(cutCaches'[s].layer.lerpedRotationAmount,
                   <<getParametersForSlot(s).rotationAmount, 1>>)]_vars

(* A frame in mid-transition rendered an inactive cut into its cache and the *)
(* active cut directly                                                       *)
C8_Witness ==
  /\ CutsFrame
  /\ step.rendered # {}
  /\ step.direct # {}
  /\ FracLess(step.rotationProgress, One)
  /\ step.rotationProgress[1] > 0

(* The slot operations of the CutManager class *)
SlotOps == {"CutManager.placeCutInSlot", "CutManager.selectCutSlot",
            "CutManager.clearCutSlot"}

(* C9: with a slot index outside [0,6), placeCutInSlot, selectCutSlot and     *)
(* clearCutSlot of the class return false and leave cutSlots, cuts and        *)
(* selectedCutSlot as they were                                               *)
C9_OutOfRangeRejected ==
  [][(step'.op \in SlotOps /\ (step'.slotIndex < 0 \/ step'.slotIndex >= 6)) =>
       /\ step'.result = FALSE
       /\ cutManager'.cutSlots = cutManager.cutSlots
       /\ cutManager'.cuts = cutManager.cuts
       /\ cutManager'.selectedCutSlot = cutManager.selectedCutSlot]_vars

(* A placement into slot 6 was refused by an instance that holds a cut and   *)
(* has slot 1 selected                                                       *)
C9_Witness ==
  /\ step.op = "CutManager.placeCutInSlot"
  /\ step.slotIndex = 6
  /\ step.result = FALSE
  /\ cutManager.selectedCutSlot = 1
  /\ Len(cutManager.cuts) > 0

Occupied(slots) == {s \in Slots : slots[s] # Null}
EntriesFor(cutsArray, slotIndex) ==
  {i \in 1 .. Len(cutsArray) : cutsArray[i].slotIndex = slotIndex}

(* C12: a placement into a slot that holds a cut replaces the slot's position, *)
(* leaves the number of occupied slots as it was, and the cuts array has       *)
(* exactly one entry for the slot, at the new position; in the class and in    *)
(* the sketch                                                                  *)
C12_PlacementMoves ==
  [][/\ (/\ step'.op = "CutManager.placeCutInSlot"
         /\ step'.slotIndex \in Slots
         /\ cutManager.cutSlots[step'.slotIndex] # Null) =>
          /\ cutManager'.cutSlots[step'.slotIndex] =
               [centerX |-> step'.centerX, centerY |-> step'.centerY]
          /\ Cardinality(Occupied(cutManager'.cutSlots)) =
               Cardinality(Occupied(cutManager.cutSlots))
          /\ Cardinality(EntriesFor(cutManager'.cuts, step'.slotIndex)) = 1
          /\ \A i \in EntriesFor(cutManager'.cuts, step'.slotIndex) :
               /\ cutManager'.cuts[i].centerX = step'.centerX
               /\ cutManager'.cuts[i].centerY = step'.centerY
          /\ Len(cutManager'.cuts) = Cardinality(Occupied(cutManager'.cutSlots))
     /\ (/\ step'.op = "mousePressed"
         /\ step'.placed
         /\ cutSlots[selectedCutSlot] # Null) =>
          /\ cutSlots'[selectedCutSlot] =
               [centerX |-> step'.centerX, centerY |-> step'.centerY]
          /\ Cardinality(Occupied(cutSlots')) = Cardinality(Occupied(cutSlots))
          /\ Cardinality(EntriesFor(cuts', selectedCutSlot)) = 1
          /\ \A i \in EntriesFor(cuts', selectedCutSlot) :
               /\ cuts'[i].centerX = step'.centerX
               /\ cuts'[i].centerY = step'.centerY
          /\ Len(cuts') = Cardinality(Occupied(cutSlots'))]_vars

(* The instance moved the cut of slot 1 to another position beside the cut   *)
(* of slot 0, and its cuts array has two entries                             *)
C12_Witness ==
  /\ step.op = "CutManager.placeCutInSlot"
  /\ step.result = TRUE
  /\ step.slotIndex = 1
  /\ step.previous # Null
  /\ step.previous.centerX # step.centerX
  /\ cutManager.cutSlots[0] # Null
  /\ Len(cutManager.cuts) = 2

(* C13: the callback of a loaded image leaves all six slots empty, all six    *)
(* rasters and fingerprints empty, slot 0 selected and the transition         *)
(* settled, whatever the state before it; the caches are left as             *)
(* CacheManager.reset leaves them                                             *)
C13_ImageLoadClearsAll ==
  [][step'.op = "handleImageLoaded" =>
       /\ cutSlots' = NoCuts
       /\ cuts' = <<>>
       /\ \A s \in Slots : cutCaches'[s] = Null /\ cutCacheParams'[s] = Null
       /\ selectedCutSlot' = 0
       /\ rotationTransitionStart' = NoTime
       /\ SketchCaches' = CacheManager_reset(SketchCaches)]_vars

(* An image was loaded over a state with two cuts, a cached raster, slot 1    *)
(* selected and a transition in flight                                        *)
C13_Witness ==
  /\ step.op = "handleImageLoaded"
  /\ Cardinality(step.before.occupied) = 2
  /\ step.before.cached # {}
  /\ step.before.selectedCutSlot = 1
  /\ step.before.rotationTransitionStart # NoTime
  /\ cutSlots = NoCuts
  /\ selectedCutSlot = 0

(* C14: a change of the canvas width or height leaves all six rasters and     *)
(* fingerprints empty and no slot occupied                                    *)
C14_ResizeClearsAll ==
  [][(/\ step'.op = "onParameterChange"
      /\ step'.paramName \in {"canvasWidth", "canvasHeight"}
      /\ (pWidth' # pWidth \/ pHeight' # pHeight)) =>
       /\ \A s \in Slots : cutCaches'[s] = Null /\ cutCacheParams'[s] = Null
       /\ cutSlots' = NoCuts]_vars

(* C15: every change of imageZoom, and every change of imagePosX or          *)
(* imagePosY that moves the image, leaves all six rasters and fingerprints    *)
(* empty                                                                      *)
C15_PanZoomEmptiesCaches ==
  [][(/\ step'.op = "onParameterChange"
      /\ \/ /\ step'.paramName = "imageZoom"
            /\ params'.imageZoom # params.imageZoom
         \/ /\ step'.paramName \in {"imagePosX", "imagePosY"}
            /\ loadedImage # NoImage
            /\ (ImageFrame.posX # ImageFrame'.posX \/ ImageFrame.posY # ImageFrame'.posY)) =>
       \A s \in Slots : cutCaches'[s] = Null /\ cutCacheParams'[s] = Null]_vars

(* C16: a change of cutSize, sliceAmount, rotationAmount, rotationSpeed,      *)
(* rotationMethod or animated empties the raster and the fingerprint of every *)
(* slot but the selected one and leaves the entry of the selected slot as it  *)
(* was, and CacheManager.invalidateAllExcept(s), applied to the caches as     *)
(* they are at a parameter change, does exactly this for every s in [0,6)     *)
C16_RingChangeSparesSelected ==
  [][step'.op = "onParameterChange" =>
       /\ step'.paramName \in RingParamNames =>
            /\ \A s \in Slots \ {selectedCutSlot} :
                 cutCaches'[s] = Null /\ cutCacheParams'[s] = Null
            /\ cutCaches'[selectedCutSlot] = cutCaches[selectedCutSlot]
            /\ cutCacheParams'[selectedCutSlot] = cutCacheParams[selectedCutSlot]
            /\ SketchCaches' = CacheManager_invalidateAllExcept(SketchCaches, selectedCutSlot)
       /\ \A s \in Slots :
            LET after == CacheManager_invalidateAllExcept(SketchCaches, s)
            IN /\ \A i \in Slots \ {s} :
                    after.cutCaches[i] = Null /\ after.cutCacheParams[i] = Null
               /\ after.cutCaches[s] = cutCaches[s]
               /\ after.cutCacheParams[s] = cutCacheParams[s]
               /\ after.previousActiveCutSlot = previousActiveCutSlot]_vars

(* A ring parameter was changed while two slots held a cut and the one that  *)
(* is not selected held a raster: that raster and its fingerprint are gone    *)
C16_Witness ==
  /\ step.op = "onParameterChange"
  /\ step.paramName \in RingParamNames
  /\ step.before.cached # {}
  /\ selectedCutSlot \notin step.before.cached
  /\ \A s \in Slots : cutCaches[s] = Null /\ cutCacheParams[s] = Null
  /\ Len(cuts) = 2

(* C17: a reset leaves every slot empty and the cuts array empty *)
C17_ResetEmptiesSlots ==
  [][step'.op = "handleReset" => cutSlots' = NoCuts /\ cuts' = <<>>]_vars

(* Two fingerprints differ in at least one of the nine fields *)
FieldsDiffer(a, b) ==
  \/ a.centerX # b.centerX
  \/ a.centerY # b.centerY
  \/ a.maxDiameter # b.maxDiameter
  \/ a.cutSliceAmount # b.cutSliceAmount
  \/ a.cutSize # b.cutSize
  \/ a.rotationAmount # b.rotationAmount
  \/ a.rotationSpeed # b.rotationSpeed
  \/ a.animated # b.animated
  \/ a.rotationMethod # b.rotationMethod

(* A fingerprint, and the fingerprints that differ from it in one field *)
KeysNear(key) ==
  {key,
   [key EXCEPT !.centerX = @ + 1], [key EXCEPT !.centerX = -@],
   [key EXCEPT !.centerX = @ * 10], [key EXCEPT !.centerY = @ + 1],
   [key EXCEPT !.maxDiameter = @ + 1], [key EXCEPT !.cutSliceAmount = @ + 1],
   [key EXCEPT !.cutSize = @ + 1], [key EXCEPT !.rotationAmount = @ + 1],
   [key EXCEPT !.rotationAmount = -@], [key EXCEPT !.rotationSpeed = @ + 1],
   [key EXCEPT !.animated = ~@],
   [key EXCEPT !.rotationMethod = IF @ = "wave" THEN "incremental" ELSE "wave"]}

(* C18: needsCacheUpdate(slot, key) is true exactly when the slot has no      *)
(* raster, or no stored fingerprint, or the stored fingerprint differs from   *)
(* key in at least one of the nine fields; with a raster and nine equal       *)
(* fields it is false.  Checked for the key of every inactive cut of a frame, *)
(* which is re-rendered exactly in that case, and, after the frame, for every *)
(* slot against every stored fingerprint and its one-field variants           *)
C18_StaleExactly ==
  [][(FullFrame' /\ loadedImage # NoImage) =>
       /\ \A i \in InactiveCuts :
            LET s == cuts[i].slotIndex
                key == SlotCacheKey(cuts[i], ImageFrame)
                expected == \/ cutCaches[s] = Null
                            \/ cutCacheParams[s] = Null
                            \/ FieldsDiffer(cutCacheParams[s], key)
            IN /\ needsCacheUpdate(cutCaches, cutCacheParams, s, key) = expected
               /\ (s \in step'.rendered) = expected
       /\ \A t \in Slots :
            cutCacheParams'[t] # Null =>
              \A key \in KeysNear(cutCacheParams'[t]) : \A s \in Slots :
                needsCacheUpdate(cutCaches', cutCacheParams', s, key) =
                  (\/ cutCaches'[s] = Null
                   \/ cutCacheParams'[s] = Null
                   \/ FieldsDiffer(cutCacheParams'[s], key))]_vars

(* A frame found the stored fingerprint of an inactive slot, which held a     *)
(* raster, different from the key and rendered the slot again                 *)
C18_Witness ==
  /\ FullFrame
  /\ step.refreshed # {}
  /\ \A s \in step.refreshed : cutCaches[s] # Null /\ cutCacheParams[s] # Null

(* C19: when rotationAmount is exactly 0 the compositor composites zero      *)
(* rings, in the direct render path (the display layer gets none) and in the *)
(* cached render path, where the slot's raster exists and is left fully      *)
(* clear, whatever had been drawn into it before.                            *)
C19_ZeroAmountNoRings ==
  /\ (step.op = "RenderEngine.renderCutSlices" /\ step.in.rotationAmount = 0)
        => step.display = <<>>
  /\ (step.op = "RenderEngine.renderCutSlicesToBuffer" /\ step.in.rotationAmount = 0)
        => /\ renderEngine.cutCachesArray[step.slotIndex] # Null
           /\ renderEngine.cutCachesArray[step.slotIndex].layer = <<>>

C19_Witness ==
  /\ step.op = "RenderEngine.renderCutSlicesToBuffer"
  /\ step.in.rotationAmount = 0
  /\ step.in.sliceAmount = 10
  /\ step.before.drawn
  /\ renderEngine.cutCachesArray[step.slotIndex].layer = <<>>

(* The rings of the last render call *)
LastRings ==
  IF step.op = "RenderEngine.renderCutSlices" THEN step.display
  ELSE IF step.op = "RenderEngine.renderCutSlicesToBuffer"
         THEN renderEngine.cutCachesArray[step.slotIndex].layer
         ELSE <<>>

(* a/b = c/d for fractions with positive denominators *)
SameFraction(a, b) == a[1] * b[2] = b[1] * a[2]

(* C20: with the incremental method and animated = false, ring i is rotated  *)
(* by rotationAmount * transitionProgress * i degrees, converted to radians  *)
(* (degrees / 180 in units of PI) with no sine in front; ring 0 is not       *)
(* rotated, and with rotationAmount = 10, sliceAmount = 10 and progress 1    *)
(* ring 9 is rotated by 90 degrees, half of PI.                              *)
C20_IncrementalAngle ==
  (/\ step.op \in {"RenderEngine.renderCutSlices", "RenderEngine.renderCutSlicesToBuffer"}
   /\ step.in.rotationMethod = "incremental"
   /\ ~step.in.isAnimated)
  => /\ \A k \in 1..Len(LastRings) :
          LET ring == LastRings[k]
              degrees == <<step.in.rotationAmount * step.in.rotationProgress[1] * ring.i,
                           step.in.rotationProgress[2]>>
          IN /\ ring.i = k - 1
             /\ ~ring.currentRotation.sine.applied
             /\ SameFraction(ring.currentRotation.piUnits, <<degrees[1], degrees[2] * 180>>)
             /\ ring.i = 0 => ring.currentRotation.piUnits[1] = 0
     /\ (/\ step.in.rotationAmount = 10
         /\ step.in.sliceAmount = 10
         /\ step.in.rotationProgress = <<1, 1>>)
        => /\ Len(LastRings) = 10
           /\ SameFraction(LastRings[10].currentRotation.piUnits, <<1, 2>>)

C20_Witness ==
  /\ step.op = "RenderEngine.renderCutSlices"
  /\ step.in.rotationMethod = "incremental"
  /\ ~step.in.isAnimated
  /\ step.in.rotationAmount = 10
  /\ step.in.sliceAmount = 10
  /\ step.in.rotationProgress = <<1, 1>>
  /\ Len(step.display) = 10
  /\ step.display[10].i = 9
  /\ step.display[10].currentRotation.piUnits = <<90, 180>>

(* C21: before the ring loop a sliceAmount below 1 is clamped to 1 and a     *)
(* cutSize below 1 is clamped to 1, for 0, negative and fractional values,   *)
(* so that a cut with a rotation amount other than 0 gets at least one ring. *)
C21_ClampedToOne ==
  (step.op = "drawOneCut" /\ ~step.threw) =>
    /\ FractionLess(step.in.sliceAmount, Whole(1)) => step.G.cutSliceAmount = 1
    /\ FractionLess(step.in.cutSize, Whole(1)) => step.G.cutSize = 1
    /\ step.in.rotationAmount # 0 => step.layer.rings >= 1

(* C22: the outer diameter a cut is rendered with is the smaller of the      *)
(* requested cutSize and the smaller dimension of the zoomed image: 500      *)
(* requested against a smaller dimension of 300 is rendered with 300, and a  *)
(* cutSize that does not exceed that dimension is used as it is.             *)
C22_EffectiveDiameter ==
  (step.op = "drawOneCut" /\ ~step.threw /\ ~FractionLess(step.in.cutSize, Whole(1))) =>
    LET requested == Floor(step.in.cutSize)
        smaller == Min(step.F.zoomedImageWidth, step.F.zoomedImageHeight)
    IN /\ step.G.maxDiameter = Min(requested, smaller)
       /\ step.layer.maxDiameter = step.G.maxDiameter
       /\ (requested = 500 /\ smaller = 300) => step.layer.maxDiameter = 300
       /\ requested <= smaller => step.layer.maxDiameter = requested

C22_Witness ==
  /\ step.op = "drawOneCut"
  /\ ~step.threw
  /\ step.in.cutSize = <<500, 1>>
  /\ step.in.rotationAmount = 10
  /\ Min(step.F.zoomedImageWidth, step.F.zoomedImageHeight) = 300
  /\ step.layer.maxDiameter = 300
  /\ step.layer.rings = 10

(* C23: clearCutSlot of the class, for a slot in [0,6), empties that slot    *)
(* and nothing else: every other slot keeps its placement, the list of cuts  *)
(* holds the cuts of the other slots, and selectedCutSlot is unchanged, so   *)
(* that clearing the selected slot leaves the selection at an empty slot.    *)
C23_ClearOneSlotOnly ==
  [][(step'.op = "CutManager.clearCutSlot" /\ step'.slotIndex \in Slots) =>
       /\ step'.result = TRUE
       /\ cutManager'.cutSlots[step'.slotIndex] = Null
       /\ \A s \in Slots \ {step'.slotIndex} :
            cutManager'.cutSlots[s] = cutManager.cutSlots[s]
       /\ cutManager'.selectedCutSlot = cutManager.selectedCutSlot
       /\ Occupied(cutManager'.cutSlots) = Occupied(cutManager.cutSlots) \ {step'.slotIndex}
       /\ \A s \in Slots : Cardinality(EntriesFor(cutManager'.cuts, s)) =
                               IF s \in Occupied(cutManager'.cutSlots) THEN 1 ELSE 0]_vars

(* The selected slot 1 held a cut and was cleared while slot 0 holds one *)
C23_Witness ==
  /\ step.op = "CutManager.clearCutSlot"
  /\ step.slotIndex = 1
  /\ step.result = TRUE
  /\ step.previous # Null
  /\ cutManager.selectedCutSlot = 1
  /\ cutManager.cutSlots[1] = Null
  /\ cutManager.cutSlots[0] # Null
  /\ Len(cutManager.cuts) = 1

StrictlyAscending(seq) == \A i, j \in 1 .. Len(seq) : i < j => seq[i] < seq[j]
SlotIndicesOf(entries) == [i \in 1 .. Len(entries) |-> entries[i].slotIndex]

(* C24: after any placements and clears getCutIndices returns the indices of *)
(* the occupied slots, each once, in strictly ascending order; the cuts of   *)
(* the instance are listed in that order, and the render loop of the sketch  *)
(* works through its placed cuts with the lower slot index first, which is   *)
(* the order of the layers of the display.                                   *)
C24_AscendingOrder ==
  /\ StrictlyAscending(CutManager_getCutIndices(cutManager))
  /\ {CutManager_getCutIndices(cutManager)[i] :
         i \in 1 .. Len(CutManager_getCutIndices(cutManager))}
       = Occupied(cutManager.cutSlots)
  /\ SlotIndicesOf(cutManager.cuts) = CutManager_getCutIndices(cutManager)
  /\ StrictlyAscending(SlotIndicesOf(cuts))
  /\ StrictlyAscending(SlotIndicesOf(display))

(* The instance got its cut of slot 0 after its cut of slot 1, and the frame *)
(* of the sketch shows the cut of slot 0 below the cut of slot 1             *)
C24_Witness ==
  /\ step.op = "CutManager.placeCutInSlot"
  /\ step.slotIndex = 0
  /\ step.result = TRUE
  /\ step.previous = Null
  /\ CutManager_getCutIndices(cutManager) = <<0, 1>>
  /\ SlotIndicesOf(cutManager.cuts) = <<0, 1>>
  /\ SlotIndicesOf(display) = <<0, 1>>

(* C25: after any sequence of place, select, clear, clearAll and image load, *)
(* with any slot argument, the selection of the instance and the selection   *)
(* of the sketch are each one slot index in [0,6), occupied or not; the      *)
(* initial selection is slot 0.                                              *)
C25_SelectionValid ==
  /\ cutManager.selectedCutSlot \in Slots
  /\ selectedCutSlot \in Slots
  /\ step.op = "init" => (cutManager.selectedCutSlot = 0 /\ selectedCutSlot = 0)

(* A selection of slot 6 was refused; the selection stays at the empty slot 1 *)
C25_Witness ==
  /\ step.op = "CutManager.selectCutSlot"
  /\ step.slotIndex = 6
  /\ cutManager.selectedCutSlot = 1
  /\ cutManager.cutSlots[1] = Null
  /\ cutManager.cutSlots[0] # Null

(* C26: after any sequence of operations of the class, addCut and            *)
(* removeActiveCut included, the slot array has exactly 6 entries and the    *)
(* list of cuts holds at most 6 cuts; addCut on a list of 6 cuts returns     *)
(* null and changes nothing.                                                 *)
C26_NeverMoreThanSix ==
  [][/\ DOMAIN cutManager'.cutSlots = Slots
     /\ Len(cutManager'.cuts) <= 6
     /\ (step'.op = "CutManager.addCut" /\ Len(cutManager.cuts) = 6) =>
          (step'.returned = NoIndex /\ cutManager' = cutManager)]_vars

(* addCut was refused on a list of six cuts *)
C26_Witness ==
  /\ step.op = "CutManager.addCut"
  /\ step.before = 6
  /\ step.returned = NoIndex
  /\ Len(cutManager.cuts) = 6

(* C27: with animated = false, two renders with the same arguments (the same *)
(* snapshot, centre and progress) at different frame counts draw the same    *)
(* rings, with the same angles and the same geometry, for both rotation      *)
(* methods.                                                                  *)
C27_FrameCounterUnread ==
  [][(/\ step.op \in RenderOps
      /\ step'.op \in RenderOps
      /\ step'.previous.sameAtAnotherFrame
      /\ ~step'.in.isAnimated)
     => LastRings' = LastRings]_vars

(* Ten static wave rings at full progress, drawn at frame 2 after the same   *)
(* call at frame 1                                                           *)
C27_Witness ==
  /\ step.op = "RenderEngine.renderCutSlices"
  /\ step.previous.sameAtAnotherFrame
  /\ step.in.frameCount = 2
  /\ ~step.in.isAnimated
  /\ step.in.rotationMethod = "wave"
  /\ step.in.rotationProgress = One
  /\ Len(step.display) = 10

(* C28: the transition duration is 5% of one oscillation period at 60 frames *)
(* per second for the rotation speed in use, floored at 500 ms, with the     *)
(* speed raised to the epsilon 0.0001 before the division; for every         *)
(* rotationSpeed, 0 and negative values included, it is a number of at least *)
(* 500 ms.  Speeds are in units of 0.0001 and 5% of the period in ms is      *)
(* 3141600 / (60 * speed), rounded down.                                     *)
C28_DurationFloored ==
  step.op = "transitionDuration" =>
    LET inUse == IF step.rotationSpeed = 0 THEN 40 ELSE step.rotationSpeed
        divisor == 60 * (IF inUse < 1 THEN 1 ELSE inUse)
        durationMs == step.rotationTransitionDuration
    IN /\ durationMs \in Nat
       /\ durationMs >= 500
       /\ durationMs > 500 =>
            (divisor * durationMs <= 3141600 /\ 3141600 < divisor * (durationMs + 1))
       /\ durationMs = 500 => 3141600 < divisor * 501

(* A negative speed: the period of the epsilon speed, 52.36 s at 5% *)
C28_Witness ==
  /\ step.op = "transitionDuration"
  /\ step.rotationSpeed = -40
  /\ step.rotationTransitionDuration = 52360

(* C29: when the provider returns no snapshot for the slot of a cut, the     *)
(* pass of the render loop still completes and renders the cut with the      *)
(* default parameters.                                                       *)
C29_MissingSnapshotDefaults ==
  (step.op = "drawOneCut" /\ ~step.in.provided) =>
    /\ ~step.threw
    /\ step.layer.sliceAmount = getDefaultParameters.sliceAmount

(* C30: whenever a frame takes the skip path, the display layer it reuses is *)
(* what the heavy rendering of the current slots, selection and parameters   *)
(* would compose.                                                            *)
C30_SkipReusesCurrent ==
  (step.op = "draw" /\ step.path = "skip") => display = FullRender.st.display

----------------------------------------------------------------------------
(* C31: every frame that runs the render pass with at least one cut placed   *)
(* leaves the selected slot without a raster; a selected slot without a      *)
(* raster stays without one while the selection does not move; and a frame   *)
(* renders a raster only for a slot that is occupied and not selected, no    *)
(* other operation creating one.                                             *)
FullFrameWithCuts == step.op = "draw" /\ step.path = "full" /\ step.hasSlices

C31_SelectedSlotUncached ==
  [][/\ FullFrameWithCuts' => cutCaches'[selectedCutSlot'] = Null
     /\ (cutCaches[selectedCutSlot] = Null /\ selectedCutSlot' = selectedCutSlot)
          => cutCaches'[selectedCutSlot'] = Null
     /\ \A s \in Slots :
          (cutCaches[s] = Null /\ cutCaches'[s] # Null)
            => /\ FullFrameWithCuts'
               /\ s \in step'.rendered
               /\ cutSlots[s] # Null
               /\ s # selectedCutSlot
     /\ FullFrameWithCuts' =>
          \A s \in step'.rendered : cutSlots[s] # Null /\ s # selectedCutSlot]_vars

(* A frame has rendered the raster of slot 0 and drawn the cut of slot 1     *)
(* directly while slot 1 is selected, and slot 1 holds no raster.            *)
C31_Witness ==
  /\ FullFrameWithCuts
  /\ 0 \in step.rendered
  /\ 1 \in step.direct
  /\ selectedCutSlot = 1
  /\ cutCaches[0] # Null
  /\ cutCaches[1] = Null

(* C32: the layers created for the slot caches and not yet removed are never *)
(* more than the six slots, whatever invalidations and renders have run.     *)
C32_AtMostSixRasters == renderEngine.liveCacheLayers <= NumSlots

(* C33: a frame has computed a progress for a transition in flight; after    *)
(* any step that does not re-arm the transition, the progress the next frame *)
(* computes is not smaller.                                                  *)
C33_ProgressNeverDecreases ==
  [][(/\ FullFrameWithCuts
      /\ rotationTransitionStart # NoTime
      /\ rotationTransitionStart' = rotationTransitionStart
      /\ Len(cuts') > 0)
       => ~FracLess(FrameProgress', step.rotationProgress)]_vars

(* C34: when two loads were requested and the callback that has just run was *)
(* the last one outstanding, the image in use is the one requested second    *)
(* and the slots, the caches and the selection are cleared.                  *)
C34_LastRequestedWins ==
  (/\ step.op = "handleImageLoaded"
   /\ Len(imageLoads.requested) = 2
   /\ imageLoads.loading = {})
    => /\ loadedImage = imageLoads.requested[2]
       /\ cutSlots = NoCuts
       /\ cutCaches = NoCuts
       /\ cutCacheParams = NoCuts
       /\ selectedCutSlot = 0

(* C35: after any operations of the instance its cuts list is what           *)
(* updateCutsArray builds from the slots: one entry for each occupied slot,  *)
(* in ascending slot order, with the slot's position and index, and nothing  *)
(* else.                                                                     *)
C35_CutsMirrorSlots == cutManager.cuts = updateCutsArray(cutManager.cutSlots)

(* C36: after any operations of the instance activeCutIndex is null or an    *)
(* index of the cuts list, and removeActiveCut never reads a field of an     *)
(* entry that is not there.                                                  *)
C36_ActiveIndexValid ==
  /\ \/ cutManager.activeCutIndex = NoIndex
     \/ /\ cutManager.activeCutIndex >= 0
        /\ cutManager.activeCutIndex < Len(cutManager.cuts)
  /\ step.op = "CutManager.removeActiveCut" => ~step.threw

(* C37: for a rotation amount other than 0, positive or negative, and a      *)
(* whole sliceAmount of at least 1, the compositor draws sliceAmount rings   *)
(* with the indices 0, 1, ... in that order; ring i has the diameter         *)
(* maxDiameter - i * cutSize / sliceAmount; and with maxDiameter = cutSize   *)
(* the diameters fall strictly from cutSize to cutSize / sliceAmount, all    *)
(* above 0.                                                                  *)
C37_RingDiameters ==
  (/\ step.op \in RenderOps
   /\ step.in.rotationAmount # 0
   /\ step.in.sliceAmount >= 1)
  => /\ Len(LastRings) = step.in.sliceAmount
     /\ \A k \in 1 .. Len(LastRings) :
          /\ LastRings[k].i = k - 1
          /\ SameFraction(LastRings[k].currentSize,
                          <<step.in.maxDiameter * step.in.sliceAmount
                              - (k - 1) * step.in.cutSize, step.in.sliceAmount>>)
          /\ LastRings[k].currentSize[1] > 0
          /\ k > 1 => FractionLess(LastRings[k].currentSize, LastRings[k - 1].currentSize)
     /\ step.in.maxDiameter = step.in.cutSize
          => /\ SameFraction(LastRings[1].currentSize, Whole(step.in.cutSize))
             /\ SameFraction(LastRings[Len(LastRings)].currentSize,
                             <<step.in.cutSize, step.in.sliceAmount>>)

(* A cut of 300 pixels and ten rings with a negative rotation amount: ring 0 *)
(* is 300 wide and ring 9 is 30 wide.                                        *)
C37_Witness ==
  /\ step.op = "RenderEngine.renderCutSlices"
  /\ step.in.rotationAmount = -10
  /\ step.in.sliceAmount = 10
  /\ Len(step.display) = 10
  /\ step.display[1].currentSize = <<3000, 10>>
  /\ step.display[10].currentSize = <<300, 10>>

(* C38: for every ring of a rendered cut the square that is sampled, of side *)
(* sw = sh = ceil(ring diameter) at (sx, sy), lies inside the pattern image. *)
(* sx and sy are kept in halves.                                             *)
C38_SampleInsidePattern ==
  step.op = "drawCutRings" =>
    \A k \in 1 .. Len(step.rings) :
      LET ring == step.rings[k]
      IN /\ ring.sw = Ceil(ring.currentSize)
         /\ ring.sh = ring.sw
         /\ ring.sx[1] >= 0
         /\ ring.sx[1] + ring.sx[2] * ring.sw <= ring.sx[2] * CanvasLayer.width
         /\ ring.sy[1] >= 0
         /\ ring.sy[1] + ring.sy[2] * ring.sh <= ring.sy[2] * CanvasLayer.height

(* C39: after the diameter clamp the centre of a rendered cut lies in        *)
(* [imageLeft + r, imageRight - r] x [imageTop + r, imageBottom - r] with    *)
(* r half the diameter, so the outer ring is inside the zoomed image         *)
(* rectangle, wherever the cut was stored and whatever the pan and zoom.     *)
(* The inequalities are doubled.                                             *)
C39_CentreInsideImage ==
  step.op = "drawCutRings" =>
    LET F == step.F
        G == step.G
    IN /\ G.maxDiameter = G.cutSize
       /\ G.cutSize <= Min(F.zoomedImageWidth, F.zoomedImageHeight)
       /\ 2 * G.clampedCenterX >= 2 * F.imageLeft + G.cutSize
       /\ 2 * G.clampedCenterX <= 2 * F.imageRight - G.cutSize
       /\ 2 * G.clampedCenterY >= 2 * F.imageTop + G.cutSize
       /\ 2 * G.clampedCenterY <= 2 * F.imageBottom - G.cutSize
       /\ \A k \in 1 .. Len(step.rings) :
            /\ step.rings[k].centerX = G.clampedCenterX
            /\ step.rings[k].centerY = G.clampedCenterY

(* A cut stored far to the right of and above a panned image at zoom 2, with *)
(* a diameter of 500: its centre is moved to touch the right and the top     *)
(* edge of the image rectangle from inside.                                  *)
C39_Witness ==
  /\ step.op = "drawCutRings"
  /\ step.in.imageZoom = 2
  /\ step.in.imagePosX = -100
  /\ step.in.centerX = 1000
  /\ step.in.centerY = -1000
  /\ step.in.cutSize = 500
  /\ step.F.posX = -100
  /\ step.G.cutSize = 500
  /\ 2 * step.G.clampedCenterX = 2 * step.F.imageRight - 500
  /\ 2 * step.G.clampedCenterY = 2 * step.F.imageTop + 500

(* C40: for a zoom of at least 1 the pan bounds are symmetric about 0,       *)
(* minX = -maxX <= 0 <= maxX and minY = -maxY <= 0 <= maxY, the clamped pan  *)
(* lies within them, and the zoomed cover-fitted image then covers the whole *)
(* canvas.                                                                   *)
C40_ClampedPanCovers ==
  (step.op = "clampPan" /\ step.in.zoom >= 1) =>
    LET B == step.posBounds
        F == step.F
    IN /\ step.dims.width >= step.in.canvas[1]
       /\ step.dims.height >= step.in.canvas[2]
       /\ B.minX = -B.maxX /\ B.minX <= 0 /\ 0 <= B.maxX
       /\ B.minY = -B.maxY /\ B.minY <= 0 /\ 0 <= B.maxY
       /\ B.minX <= F.posX /\ F.posX <= B.maxX
       /\ B.minY <= F.posY /\ F.posY <= B.maxY
       /\ F.imageLeft <= 0
       /\ F.imageRight >= step.in.canvas[1]
       /\ F.imageTop <= 0
       /\ F.imageBottom >= step.in.canvas[2]

(* A 1600x1000 image on the 400x500 canvas at zoom 2, panned far to the      *)
(* right and far up: the pan is held at maxX = 600 and minY = -250, and the  *)
(* image's left and bottom edges lie on the canvas's.                        *)
C40_Witness ==
  /\ step.op = "clampPan"
  /\ step.in.imgWidth = 1600
  /\ step.in.canvas = <<400, 500>>
  /\ step.in.zoom = 2
  /\ step.in.imagePosX = 2000
  /\ step.in.imagePosY = -2000
  /\ step.posBounds.maxX = 600
  /\ step.F.posX = 600
  /\ step.F.posY = -250
  /\ step.F.imageLeft = 0
  /\ step.F.imageBottom = 500

====
